---- MODULE Spec2Model ----
(***************************************************************************)
(* Model of the price-tracker check pipeline:                              *)
(*   packages/extraction/src/check-service.ts  (PriceTrackerService)       *)
(*   packages/extraction/src/extract.ts        (extractProductFromUrl)     *)
(*                                                                         *)
(* Every awaited database call, the extractor call and the webhook POST    *)
(* are separate steps of a runCheckForItem invocation, so invocations      *)
(* interleave exactly at the await points of the code.                     *)
(*                                                                         *)
(* Encoding of JavaScript values:                                          *)
(*   numbers are naturals, null is NULL (-1), undefined is UNDEF (-2);     *)
(*   typeof x === "number" is x >= 0;                                      *)
(*   boolean | null | undefined is one of "true" "false" "null"            *)
(*   "undefined";                                                          *)
(*   an error / reason string is a sequence of its "_"-separated words,    *)
(*   so that String.includes is a sub-sequence search;                     *)
(*   confidences are hundredths (0.88 is 88);                              *)
(*   money is in units of AI_DAILY_BUDGET_USD / DailyBudgetUsd.            *)
(***************************************************************************)
EXTENDS Integers, Sequences, FiniteSets, TLC

\* ---------------------------------------------------------------- bounds
MaxInFlight == 2     \* invocations of runCheckForItem that may overlap
MaxRuns     == 2     \* invocations of runCheckForItem in one behaviour
NumItems    == 1     \* TrackedItem rows in the database
MaxDay      == 2     \* calendar days a behaviour may span
MaxPrice    == 2     \* largest priceCents an extraction reports
MaxTokens   == 1     \* largest prompt token count of one AI call
MaxProbe    == 7     \* largest number handed to a pure function

\* ------------------------------------------------------ program constants
DailyBudgetUsd            == 1    \* AI_DAILY_BUDGET_USD, default "1.00"
aiConfidenceThreshold     == 88   \* AI_FALLBACK_CONFIDENCE_THRESHOLD 0.88
outOfStockVerifyThreshold == 78   \* OUT_OF_STOCK_VERIFY_CONFIDENCE_THRESHOLD 0.78
FinalGateConfidence       == 70   \* extracted.confidence < 0.7
AiConfidence              == 87   \* confidence: 0.87 of an AI result
InputRate                 == 1    \* inputRatePer1M, per prompt token unit
OutputRate                == 1    \* outputRatePer1M, per completion token unit

NULL  == -1
UNDEF == -2

IsNumber(x) == x >= 0

Slots   == 1..MaxInFlight
ItemIds == 1..NumItems
Prices  == 1..MaxPrice

Max(a, b) == IF a >= b THEN a ELSE b

\* ------------------------------------------------------------ strings
AI_BUDGET                      == <<"AI", "BUDGET">>
LOW_CONFIDENCE                 == <<"LOW", "CONFIDENCE">>
REGIONAL_REDIRECT              == <<"REGIONAL", "REDIRECT">>
REDIRECT_BLOCKED               == <<"REDIRECT", "BLOCKED">>
URL_REDIRECT_BLOCKED           == <<"URL", "REDIRECT", "BLOCKED">>
REGIONAL_REDIRECT_MISMATCH     == <<"REGIONAL", "REDIRECT", "MISMATCH">>
AI_BUDGET_EXCEEDED_OR_DISABLED == <<"AI", "BUDGET", "EXCEEDED", "OR", "DISABLED">>
LOW_CONFIDENCE_EXTRACTION      == <<"LOW", "CONFIDENCE", "EXTRACTION">>
UNKNOWN_EXTRACTION_ERROR       == <<"UNKNOWN", "EXTRACTION", "ERROR">>
CHECK_RUN_FAILED               == <<"CHECK", "RUN", "FAILED">>
NoString                       == <<"(null)">>

\* String.prototype.includes: needle occurs as a contiguous part of hay
Includes(hay, needle) ==
  \E i \in 0..(Len(hay) - Len(needle)) :
     SubSeq(hay, i + 1, i + Len(needle)) = needle

\* ------------------------------------------------- extraction pipeline
\* ExtractResult (the fields the pipeline and the service read):
\* productName is TRUE when the name is a non-empty string, variantStock
\* is TRUE when the list is non-empty, embOut / embIn say whether
\* evidence.candidates holds a "stock:embedded:out=" / "in=" entry.
MkResult(name, price, stock, state, variants, conf, method, eo, ei) ==
  [productName |-> name, priceCents |-> price, inStock |-> stock,
   stockState |-> state, variantStock |-> variants, confidence |-> conf,
   method |-> method, embOut |-> eo, embIn |-> ei]

NoResult == MkResult(FALSE, UNDEF, "undefined", "UNKNOWN", FALSE, 0, "none", FALSE, FALSE)

inStockFromState(state) ==
  IF state = "OUT_OF_STOCK" THEN "false"
  ELSE IF state \in {"IN_STOCK", "PARTIAL"} THEN "true"
  ELSE "null"

\* what the service reads of extraction.result
Persisted(res) == [priceCents |-> res.priceCents, inStock |-> res.inStock]

\* ExtractionAttempt; tokenInput, tokenOutput, estimatedCostUsd are UNDEF
\* when the pipeline leaves them out of the returned object
MkAttempt(status, hasResult, res, hasReason, reason, pw, ai, ti, to, cost) ==
  [status |-> status, hasResult |-> hasResult, result |-> Persisted(res),
   hasReason |-> hasReason, reason |-> reason,
   usedPlaywright |-> pw, usedAi |-> ai,
   tokenInput |-> ti, tokenOutput |-> to, estimatedCostUsd |-> cost]

NoAttempt ==
  MkAttempt("none", FALSE, NoResult, FALSE, NoString, FALSE, FALSE, UNDEF, UNDEF, UNDEF)

\* What one call of the extractor does: it returns an attempt or throws.
\* aiWanted records that the pipeline reached the AI fallback (line 128),
\* aiCalled / aiCost whether the chat completion was requested and what it
\* cost, also when the call is followed by a throw.
Returned(att, wanted, called, ti, to, cost) ==
  [thrown |-> FALSE, attempt |-> att, aiWanted |-> wanted, aiCalled |-> called,
   aiTokenInput |-> ti, aiTokenOutput |-> to, aiCost |-> cost]

Thrown(wanted, called, ti, to, cost) ==
  [thrown |-> TRUE, attempt |-> NoAttempt, aiWanted |-> wanted, aiCalled |-> called,
   aiTokenInput |-> ti, aiTokenOutput |-> to, aiCost |-> cost]

estimateCostUsd(tokenInput, tokenOutput) ==
  tokenInput * InputRate + tokenOutput * OutputRate

\* the gate with the last comparison made inclusive
shouldUseAiFallbackInclusive(result, verifyThreshold) ==
  IF result.inStock # "false" THEN TRUE
  ELSE IF result.stockState = "OUT_OF_STOCK" /\ result.embOut /\ ~result.embIn THEN FALSE
  ELSE IF result.stockState = "PARTIAL" THEN TRUE
  ELSE IF result.variantStock THEN TRUE
  ELSE result.confidence <= verifyThreshold

shouldUseAiFallback(result, verifyThreshold) ==
  IF result.inStock # "false" THEN TRUE
  ELSE IF result.stockState = "OUT_OF_STOCK" /\ result.embOut /\ ~result.embIn THEN FALSE
  ELSE IF result.stockState = "PARTIAL" THEN TRUE
  ELSE IF result.variantStock THEN TRUE
  ELSE result.confidence < verifyThreshold

\* The environment of one extractor call (what the network answers):
\*   bestBuy, shopify : [present, result]   tryExtractFrom... (null when absent)
\*   staticFetch      : "ok" | "redirect" | "error"   fetchPageHtml
\*   regional         : hasRegionalHostRedirectMismatch
\*   static           : extractFromHtml of the static page
\*   rendered         : [present, result]   fetchRenderedHtml + extractFromHtml
\*   ai               : [outcome, reply, tokenInput, tokenOutput]
\*                      outcome "nokey"  : throws before the request
\*                              "reject" : the completion arrives, then empty
\*                                         content or a schema failure throws
\*                              "ok"     : a parsed reply
extractProductFromUrl(env, allowPlaywright, allowAi) ==
  IF env.bestBuy.present
  THEN Returned(MkAttempt("success", TRUE, env.bestBuy.result, FALSE, NoString,
                          FALSE, FALSE, UNDEF, UNDEF, UNDEF), FALSE, FALSE, 0, 0, 0)
  ELSE IF env.shopify.present
  THEN Returned(MkAttempt("success", TRUE, env.shopify.result, FALSE, NoString,
                          FALSE, FALSE, UNDEF, UNDEF, UNDEF), FALSE, FALSE, 0, 0, 0)
  ELSE IF env.staticFetch = "redirect"
  THEN Returned(MkAttempt("needs_review", FALSE, NoResult, TRUE, URL_REDIRECT_BLOCKED,
                          FALSE, FALSE, UNDEF, UNDEF, UNDEF), FALSE, FALSE, 0, 0, 0)
  ELSE IF env.staticFetch = "error"
  THEN Thrown(FALSE, FALSE, 0, 0, 0)
  ELSE IF env.regional
  THEN Returned(MkAttempt("needs_review", FALSE, NoResult, TRUE, REGIONAL_REDIRECT_MISMATCH,
                          FALSE, FALSE, UNDEF, UNDEF, UNDEF), FALSE, FALSE, 0, 0, 0)
  ELSE
    LET static == env.static
        tryRender == /\ static.confidence < aiConfidenceThreshold
                     /\ allowPlaywright
                     /\ (static.inStock # "false" \/ static.confidence < outOfStockVerifyThreshold)
        usedPlaywright == tryRender /\ env.rendered.present
        extracted == IF usedPlaywright /\ env.rendered.result.confidence > static.confidence
                     THEN [env.rendered.result EXCEPT !.method = "playwright"]
                     ELSE static
        wantAi == /\ extracted.confidence < aiConfidenceThreshold
                  /\ shouldUseAiFallback(extracted, outOfStockVerifyThreshold)
        ti   == env.ai.tokenInput
        to   == env.ai.tokenOutput
        cost == estimateCostUsd(ti, to)
    IN
    IF wantAi /\ ~allowAi
    THEN Returned(MkAttempt("needs_review", FALSE, NoResult, TRUE, AI_BUDGET_EXCEEDED_OR_DISABLED,
                            usedPlaywright, FALSE, UNDEF, UNDEF, UNDEF), TRUE, FALSE, 0, 0, 0)
    ELSE IF wantAi /\ env.ai.outcome = "nokey"
    THEN Thrown(TRUE, FALSE, 0, 0, 0)
    ELSE IF wantAi /\ env.ai.outcome = "reject"
    THEN Thrown(TRUE, TRUE, ti, to, cost)
    ELSE
      LET usedAi == wantAi
          final == IF usedAi
                   THEN [extracted EXCEPT !.productName  = env.ai.reply.productName,
                                          !.priceCents   = env.ai.reply.priceCents,
                                          !.inStock      = env.ai.reply.inStock,
                                          !.stockState   = env.ai.reply.stockState,
                                          !.variantStock = env.ai.reply.variantStock,
                                          !.confidence   = AiConfidence,
                                          !.method       = "ai"]
                   ELSE extracted
          uti   == IF usedAi THEN ti ELSE UNDEF
          uto   == IF usedAi THEN to ELSE UNDEF
          ucost == IF usedAi THEN cost ELSE UNDEF
          called == usedAi
      IN
      IF \/ ~final.productName
         \/ final.confidence < FinalGateConfidence
         \/ (final.inStock # "false" /\ ~IsNumber(final.priceCents))
      THEN Returned(MkAttempt("needs_review", FALSE, NoResult, TRUE, LOW_CONFIDENCE_EXTRACTION,
                              usedPlaywright, usedAi, uti, uto, ucost),
                    wantAi, called, IF called THEN ti ELSE 0, IF called THEN to ELSE 0,
                    IF called THEN cost ELSE 0)
      ELSE Returned(MkAttempt("success", TRUE, final, FALSE, NoString,
                              usedPlaywright, usedAi, uti, uto, ucost),
                    wantAi, called, IF called THEN ti ELSE 0, IF called THEN to ELSE 0,
                    IF called THEN cost ELSE 0)

\* ----------------------------------------- inputs of the extractor call
Present(res) == [present |-> TRUE, result |-> res]
Absent       == [present |-> FALSE, result |-> NoResult]

\* extractFromBestBuyPayload: a price or none, with any availability, 0.96
BestBuyAnswers ==
  (Prices \X {"IN_STOCK"}) \cup ({NULL} \X {"OUT_OF_STOCK", "UNKNOWN"})

BestBuyResults ==
  { MkResult(TRUE, a[1], inStockFromState(a[2]), a[2], FALSE, 96, "static", FALSE, FALSE) :
      a \in BestBuyAnswers }

\* extractFromShopifyPayload: a two-variant product, one variant sold out
ShopifyResults ==
  { MkResult(TRUE, 1, "true", "PARTIAL", TRUE, 99, "shopify_json", FALSE, FALSE) }

\* extractFromHtml of the static page: a confident page, an out-of-stock
\* page without a price, a page on which no price was found
ConfidentPage == MkResult(TRUE, 1, "true", "IN_STOCK", FALSE, 90, "static", FALSE, FALSE)
SoldOutPage   == MkResult(TRUE, NULL, "false", "OUT_OF_STOCK", FALSE, 80, "static", FALSE, FALSE)
UnclearPage   == MkResult(TRUE, NULL, "true", "IN_STOCK", FALSE, 60, "static", FALSE, FALSE)

StaticResults == {ConfidentPage, SoldOutPage, UnclearPage}

\* extractFromHtml of the rendered page
RenderedResults == {ConfidentPage}

\* the parsed and normalised reply of extractWithAi
AiReplies ==
  { [productName |-> TRUE, priceCents |-> p, inStock |-> inStockFromState(st),
     stockState |-> st, variantStock |-> FALSE] :
      p \in {NULL, 1}, st \in {"IN_STOCK"} }

AiAnswers ==
  { [outcome |-> o, reply |-> rp, tokenInput |-> ti, tokenOutput |-> 1] :
      o \in {"nokey", "reject", "ok"}, rp \in AiReplies, ti \in 1..MaxTokens }

NoAi == CHOOSE a \in AiAnswers : a.outcome = "nokey"

Env0 ==
  [bestBuy |-> Absent, shopify |-> Absent, staticFetch |-> "ok", regional |-> FALSE,
   static |-> ConfidentPage, rendered |-> Absent, ai |-> NoAi]

AdapterEnvs ==
  { [Env0 EXCEPT !.bestBuy = Present(res)] : res \in BestBuyResults } \cup
  { [Env0 EXCEPT !.shopify = Present(res)] : res \in ShopifyResults }

FetchEnvs ==
  { [Env0 EXCEPT !.staticFetch = f] : f \in {"redirect", "error"} } \cup
  { [Env0 EXCEPT !.regional = TRUE] }

PageEnvs ==
  { [Env0 EXCEPT !.static = s] : s \in {ConfidentPage, SoldOutPage} } \cup
  { [Env0 EXCEPT !.static = UnclearPage, !.rendered = rd, !.ai = a] :
      rd \in {Absent} \cup { Present(res) : res \in RenderedResults },
      a \in AiAnswers }

Envs == AdapterEnvs \cup FetchEnvs \cup PageEnvs

\* pages whose price and stock never change: the confident page, and the
\* unclear page with every answer of the AI
SteadyEnvs ==
  { [Env0 EXCEPT !.static = ConfidentPage] } \cup
  { [Env0 EXCEPT !.static = UnclearPage, !.ai = a] : a \in AiAnswers }

\* the most one AI call can cost
MaxCallCost == estimateCostUsd(MaxTokens, 1)

\* what an extractor handed to the constructor (deps.extractor) may answer
InjectedAttempts ==
  { MkAttempt("needs_review", FALSE, NoResult, TRUE, <<"FETCH", "TIMEOUT">>,
              FALSE, FALSE, UNDEF, UNDEF, UNDEF),
    MkAttempt("needs_review", FALSE, NoResult, TRUE, <<"VERY", "LOW", "CONFIDENCE">>,
              FALSE, FALSE, UNDEF, UNDEF, UNDEF),
    MkAttempt("needs_review", FALSE, NoResult, TRUE, <<"BLOCKED", "REDIRECT">>,
              FALSE, FALSE, UNDEF, UNDEF, UNDEF),
    MkAttempt("needs_review", FALSE, NoResult, TRUE, AI_BUDGET_EXCEEDED_OR_DISABLED,
              FALSE, FALSE, UNDEF, UNDEF, UNDEF),
    MkAttempt("needs_review", FALSE, NoResult, FALSE, NoString,
              FALSE, FALSE, UNDEF, UNDEF, UNDEF),
    MkAttempt("success", FALSE, NoResult, FALSE, NoString,
              FALSE, FALSE, UNDEF, UNDEF, UNDEF),
    MkAttempt("success", TRUE, ConfidentPage,
              FALSE, NoString, FALSE, FALSE, UNDEF, UNDEF, UNDEF) }

\* ------------------------------------------------------------- state
VARIABLES
  day,            \* the calendar day of new Date()
  webhookUrl,     \* TRUE when process.env.DISCORD_WEBHOOK_URL is set
  extractorMode,  \* "pipeline": extractProductFromUrl, "injected": deps.extractor
  trackedItems,   \* TrackedItem table:  itemId -> [active]
  checkRuns,      \* CheckRun table, in insertion order; the index is the id
  snapshots,      \* PriceSnapshot table, in insertion order; the index is the id
  notifications,  \* Notification table, in insertion order
  posts,          \* webhook POSTs performed, in order
  run,            \* the runCheckForItem invocations in flight, per slot
  invocations,    \* number of runCheckForItem invocations so far
  peak,           \* largest number of invocations in flight at once so far
  probe,          \* arguments and result of a pure function under test
  calls,          \* the createItem and deleteItem calls, per call
  daily           \* the runDailyChecks call

vars == <<day, webhookUrl, extractorMode, trackedItems, checkRuns, snapshots,
          notifications, posts, run, invocations, peak, probe, calls, daily>>

NoProbe == [fn |-> "none", a |-> UNDEF, b |-> UNDEF, out |-> FALSE]

\* no createItem, deleteItem or runDailyChecks call has been made
NoCalls == <<>>
NoDaily ==
  [pc |-> "idle", items |-> <<>>, batches |-> <<>>, batchNo |-> 0,
   queue |-> <<>>, slots |-> {}, batchOf |-> <<>>, rejected |-> FALSE,
   started |-> <<>>]

\* an id that no TrackedItem row has
NoSuchItem == 0

\* The locals of one runCheckForItem invocation.  inv numbers the
\* invocation; exhausted, aiWanted, aiCalled, aiTokenInput, aiTokenOutput,
\* aiCost, branch and status record what happened to it.
IdleRun ==
  [pc |-> "idle", inv |-> 0, itemId |-> 0, checkRunId |-> 0,
   allowAi |-> FALSE, exhausted |-> FALSE, attempt |-> NoAttempt,
   aiWanted |-> FALSE, aiCalled |-> FALSE,
   aiTokenInput |-> 0, aiTokenOutput |-> 0, aiCost |-> 0,
   latest |-> 0, snapshotId |-> 0, changed |-> FALSE, event |-> "none",
   branch |-> "none", status |-> "none"]

Active(r) == run[r].pc \notin {"idle", "returned", "raised"}
InFlight  == Cardinality({r \in Slots : Active(r)})

\* Prisma leaves a column alone when the value handed to update is undefined
Assigned(old, new) == IF new = UNDEF THEN old ELSE new

\* ------------------------------------------------- database queries
RECURSIVE SumEstimatedCost(_, _)
\* checkRun.aggregate({where: {startedAt >= startOfDay, usedAi: true}, _sum})
SumEstimatedCost(rows, startOfDay) ==
  IF rows = <<>> THEN 0
  ELSE LET row == Head(rows)
       IN (IF row.startedAt >= startOfDay /\ row.usedAi /\ IsNumber(row.estimatedCostUsd)
           THEN row.estimatedCostUsd ELSE 0)
          + SumEstimatedCost(Tail(rows), startOfDay)

getRemainingAiBudgetUsd == Max(0, DailyBudgetUsd - SumEstimatedCost(checkRuns, day))

\* trackedItem.findFirst({where: {id, active: true}}) finds a row
ActiveItem(itemId) == itemId \in DOMAIN trackedItems /\ trackedItems[itemId].active

\* priceSnapshot.findFirst({where: {itemId}, orderBy: {checkedAt: "desc"}});
\* 0 when the item has no snapshot
LatestSnapshotId(itemId) ==
  LET ids == {i \in DOMAIN snapshots : snapshots[i].itemId = itemId}
  IN  IF ids = {} THEN 0 ELSE CHOOSE i \in ids : \A j \in ids : j <= i

\* latestSnapshot?.priceCents and latestSnapshot?.inStock
PreviousPrice(r) ==
  IF run[r].latest = 0 THEN UNDEF ELSE snapshots[run[r].latest].priceCents
PreviousInStock(r) ==
  IF run[r].latest = 0 THEN "undefined" ELSE snapshots[run[r].latest].inStock

NotificationKey(row) == <<row.itemId, row.snapshotId, row.eventType>>

\* the unique index on (itemId, snapshotId, eventType): P2002 when it is hit
UniqueViolation(itemId, snapshotId, eventType) ==
  \E i \in DOMAIN notifications :
     NotificationKey(notifications[i]) = <<itemId, snapshotId, eventType>>

\* didPriceChange without the typeof checks
didPriceChangeLoose(previousPriceCents, currentPriceCents) ==
  previousPriceCents # currentPriceCents

didPriceChange(previousPriceCents, currentPriceCents) ==
  IF ~IsNumber(previousPriceCents) \/ ~IsNumber(currentPriceCents)
  THEN FALSE
  ELSE previousPriceCents # currentPriceCents

\* ------------------------------------------------------------- Init
\* The database outlives the process: the service may start on an item
\* that has no snapshot yet or on one whose last snapshot was taken by an
\* earlier process (inv 0).
PriorSnapshots ==
  { [inv |-> 0, itemId |-> 1, priceCents |-> 1, inStock |-> "false"] }

InitDb ==
  /\ day = 1
  /\ webhookUrl \in BOOLEAN
  /\ trackedItems \in [ItemIds -> [active : BOOLEAN]]
  /\ checkRuns = <<>>
  /\ snapshots \in {<<>>} \cup { <<s>> : s \in PriorSnapshots }
  /\ notifications = <<>>
  /\ posts = <<>>
  /\ run = [r \in Slots |-> IdleRun]
  /\ invocations = 0
  /\ peak = 0
  /\ calls = NoCalls
  /\ daily = NoDaily
  /\ probe = NoProbe

\* new PriceTrackerService(db): the default extractor
Init == InitDb /\ extractorMode = "pipeline"

\* new PriceTrackerService(db, {extractor}): an extractor of the caller
InitInjected == InitDb /\ extractorMode = "injected"

\* ------------------------------------------------------ runCheckForItem
Goto(r, label) == [run EXCEPT ![r].pc = label]

\* an error leaves runCheckForItem; branch keeps the step that raised it
Raise(r) ==
  [run EXCEPT ![r] = [IdleRun EXCEPT !.pc = "raised",
                                     !.branch = run[r].pc,
                                     !.inv = run[r].inv,
                                     !.itemId = run[r].itemId,
                                     !.checkRunId = run[r].checkRunId,
                                     !.snapshotId = run[r].snapshotId,
                                     !.aiCalled = run[r].aiCalled]]

\* control reaches the catch clause: the locals of the try block are gone
Caught(r, wanted, called, ti, to, cost) ==
  [run EXCEPT ![r] = [IdleRun EXCEPT !.pc = "catch",
                                     !.inv = run[r].inv,
                                     !.itemId = run[r].itemId,
                                     !.checkRunId = run[r].checkRunId,
                                     !.snapshotId = run[r].snapshotId,
                                     !.exhausted = run[r].exhausted,
                                     !.aiWanted = wanted,
                                     !.aiCalled = called,
                                     !.aiTokenInput = ti,
                                     !.aiTokenOutput = to,
                                     !.aiCost = cost]]

\* a try block that catches nothing
ThrowUncaught(r) == Raise(r)

Throw(r) == Caught(r, run[r].aiWanted, run[r].aiCalled, run[r].aiTokenInput,
                   run[r].aiTokenOutput, run[r].aiCost)

\* runCheckForItem returns: the locals are gone, what is kept of the
\* invocation is what happened to it
Return(r, status, branch) ==
  [run EXCEPT ![r].pc = "returned", ![r].status = status, ![r].branch = branch,
              ![r].allowAi = FALSE, ![r].attempt = NoAttempt,
              ![r].changed = FALSE, ![r].event = "none"]

UpdateCheckRun(id, row) == [checkRuns EXCEPT ![id] = row]

\* a caller (route handler, createItem, runDailyChecks) invokes
\* runCheckForItem(itemId); the lowest free slot takes the invocation
Invoked(r, itemId) ==
  /\ ~Active(r)
  /\ \A q \in Slots : q < r => Active(q)
  /\ invocations < MaxRuns
  /\ invocations' = invocations + 1
  /\ peak' = Max(peak, InFlight + 1)
  /\ run' = [run EXCEPT ![r] = [IdleRun EXCEPT !.pc = "findItem",
                                               !.inv = invocations + 1,
                                               !.itemId = itemId]]

\* the route handler POST /items/[id]/check
Invoke(r, itemId) ==
  /\ Invoked(r, itemId)
  /\ UNCHANGED <<calls, daily, day, webhookUrl, extractorMode, trackedItems,
                 checkRuns, snapshots, notifications, posts, probe>>

\* findFirst without the "Tracked item not found" throw
FindItemNoFailFast(r) ==
  /\ run[r].pc = "findItem"
  /\ run' = Goto(r, "createRun")
  /\ UNCHANGED <<calls, daily, day, webhookUrl, extractorMode, trackedItems, checkRuns,
                 snapshots, notifications, posts, invocations, peak, probe>>

\* trackedItem.findFirst({id, active: true}); throws when there is none
FindItem(r) ==
  /\ run[r].pc = "findItem"
  /\ run' = IF ActiveItem(run[r].itemId) THEN Goto(r, "createRun") ELSE Raise(r)
  /\ UNCHANGED <<calls, daily, day, webhookUrl, extractorMode, trackedItems, checkRuns,
                 snapshots, notifications, posts, invocations, peak, probe>>

\* checkRun.create({itemId, status: "FAILED"}); the other columns take
\* their defaults and startedAt is the time of the insert
CreateCheckRun(r) ==
  /\ run[r].pc = "createRun"
  /\ checkRuns' = Append(checkRuns,
       [inv |-> run[r].inv, itemId |-> run[r].itemId, status |-> "FAILED",
        errorCode |-> NoString, usedPlaywright |-> FALSE, usedAi |-> FALSE,
        tokenInput |-> NULL, tokenOutput |-> NULL, estimatedCostUsd |-> NULL,
        startedAt |-> day, finishedAt |-> NULL])
  /\ run' = [run EXCEPT ![r].pc = "budget", ![r].checkRunId = Len(checkRuns) + 1]
  /\ UNCHANGED <<calls, daily, day, webhookUrl, extractorMode, trackedItems,
                 snapshots, notifications, posts, invocations, peak, probe>>

\* allowAi: remainingAiBudget >= 0
ReadBudgetAllowsAtZero(r) ==
  /\ run[r].pc = "budget"
  /\ run' = [run EXCEPT ![r].pc = "extract",
                        ![r].allowAi = (getRemainingAiBudgetUsd >= 0),
                        ![r].exhausted = (SumEstimatedCost(checkRuns, day) >= DailyBudgetUsd)]
  /\ UNCHANGED <<calls, daily, day, webhookUrl, extractorMode, trackedItems, checkRuns,
                 snapshots, notifications, posts, invocations, peak, probe>>

\* remainingAiBudget = await this.getRemainingAiBudgetUsd();
\* allowAi: remainingAiBudget > 0
ReadBudget(r) ==
  /\ run[r].pc = "budget"
  /\ run' = [run EXCEPT ![r].pc = "extract",
                        ![r].allowAi = (getRemainingAiBudgetUsd > 0),
                        ![r].exhausted = (SumEstimatedCost(checkRuns, day) >= DailyBudgetUsd)]
  /\ UNCHANGED <<calls, daily, day, webhookUrl, extractorMode, trackedItems, checkRuns,
                 snapshots, notifications, posts, invocations, peak, probe>>

\* the outcome of the extractor call reaches the invocation
Extracted(r, outcome) ==
  LET att == outcome.attempt
  IN  run' = IF outcome.thrown
             THEN Caught(r, outcome.aiWanted, outcome.aiCalled, outcome.aiTokenInput,
                         outcome.aiTokenOutput, outcome.aiCost)
             ELSE [run EXCEPT ![r].pc = IF att.status # "success" \/ ~att.hasResult
                                        THEN "finalizeReview" ELSE "findLatest",
                              ![r].attempt = att,
                              ![r].aiWanted = outcome.aiWanted,
                              ![r].aiCalled = outcome.aiCalled,
                              ![r].aiTokenInput = outcome.aiTokenInput,
                              ![r].aiTokenOutput = outcome.aiTokenOutput,
                              ![r].aiCost = outcome.aiCost]

\* getAiHintsForHost, then this.extractor(item.url, {allowAi, allowPlaywright,
\* aiHints}) with the default extractor, on a page out of envs
ExtractByPipeline(r, envs) ==
  /\ run[r].pc = "extract"
  /\ extractorMode = "pipeline"
  /\ \E env \in envs, allowPlaywright \in BOOLEAN :
        Extracted(r, extractProductFromUrl(env, allowPlaywright, run[r].allowAi))
  /\ UNCHANGED <<calls, daily, day, webhookUrl, extractorMode, trackedItems, checkRuns,
                 snapshots, notifications, posts, invocations, peak, probe>>

\* the same call with an extractor handed to the constructor
ExtractByInjected(r) ==
  /\ run[r].pc = "extract"
  /\ extractorMode = "injected"
  /\ \/ \E att \in InjectedAttempts : Extracted(r, Returned(att, FALSE, FALSE, 0, 0, 0))
     \/ Extracted(r, Thrown(FALSE, FALSE, 0, 0, 0))
  /\ UNCHANGED <<calls, daily, day, webhookUrl, extractorMode, trackedItems, checkRuns,
                 snapshots, notifications, posts, invocations, peak, probe>>

\* the reason compared with === instead of includes
needsReviewExact(att) ==
  /\ att.hasReason
  /\ att.reason \in {AI_BUDGET, LOW_CONFIDENCE, REGIONAL_REDIRECT, REDIRECT_BLOCKED}

needsReview(att) ==
  /\ att.hasReason
  /\ \/ Includes(att.reason, AI_BUDGET)
     \/ Includes(att.reason, LOW_CONFIDENCE)
     \/ Includes(att.reason, REGIONAL_REDIRECT)
     \/ Includes(att.reason, REDIRECT_BLOCKED)

\* the branch extraction.status !== "success" || !extraction.result
FinalizeNonSuccess(r) ==
  LET att == run[r].attempt
      row == checkRuns[run[r].checkRunId]
      st  == IF needsReview(att) THEN "NEEDS_REVIEW" ELSE "FAILED"
  IN
  /\ run[r].pc = "finalizeReview"
  /\ checkRuns' = UpdateCheckRun(run[r].checkRunId,
       [row EXCEPT !.status = st,
                   !.errorCode = IF att.hasReason THEN att.reason ELSE UNKNOWN_EXTRACTION_ERROR,
                   !.usedPlaywright = att.usedPlaywright,
                   !.usedAi = att.usedAi,
                   !.tokenInput = Assigned(@, att.tokenInput),
                   !.tokenOutput = Assigned(@, att.tokenOutput),
                   !.estimatedCostUsd = Assigned(@, att.estimatedCostUsd),
                   !.finishedAt = day])
  /\ run' = Return(r, st, "review")
  /\ UNCHANGED <<calls, daily, day, webhookUrl, extractorMode, trackedItems,
                 snapshots, notifications, posts, invocations, peak, probe>>

\* latestSnapshot = await priceSnapshot.findFirst(...)
FindLatest(r) ==
  /\ run[r].pc = "findLatest"
  /\ run' = [run EXCEPT ![r].pc = "createSnapshot",
                        ![r].latest = LatestSnapshotId(run[r].itemId)]
  /\ UNCHANGED <<calls, daily, day, webhookUrl, extractorMode, trackedItems, checkRuns,
                 snapshots, notifications, posts, invocations, peak, probe>>

\* the two conditions that guard the notifications (lines 232 and 244)
priceChangeDue(prevId, prevPrice, changed, price) ==
  changed /\ prevId # 0 /\ IsNumber(prevPrice) /\ IsNumber(price)

\* latestSnapshot?.inStock !== true instead of === false
backInStockUnlessInStock(prevInStock, inStock) ==
  prevInStock # "true" /\ inStock = "true"

backInStockDue(prevInStock, inStock) ==
  prevInStock = "false" /\ inStock = "true"

\* where runCheckForItem continues after the send of `event` (or after the
\* snapshot insert when event is "none")
Continue(r, event, snapshot) ==
  IF event = "none"
     /\ priceChangeDue(run[r].latest, PreviousPrice(r),
                       didPriceChange(PreviousPrice(r), snapshot.priceCents),
                       snapshot.priceCents)
  THEN [pc |-> "claim", event |-> "PRICE_CHANGED"]
  ELSE IF event \in {"none", "PRICE_CHANGED"}
          /\ backInStockDue(PreviousInStock(r), snapshot.inStock)
  THEN [pc |-> "claim", event |-> "BACK_IN_STOCK"]
  ELSE [pc |-> "finalizeSuccess", event |-> "none"]

\* snapshot = await priceSnapshot.create(...); changed = didPriceChange(...)
CreateSnapshot(r) ==
  LET snapshot == [inv |-> run[r].inv, itemId |-> run[r].itemId,
                   priceCents |-> run[r].attempt.result.priceCents,
                   inStock |-> run[r].attempt.result.inStock]
      next == Continue(r, "none", snapshot)
  IN
  /\ run[r].pc = "createSnapshot"
  /\ snapshots' = Append(snapshots, snapshot)
  /\ run' = [run EXCEPT ![r].pc = next.pc,
                        ![r].event = next.event,
                        ![r].snapshotId = Len(snapshots) + 1,
                        ![r].changed = didPriceChange(PreviousPrice(r), snapshot.priceCents)]
  /\ UNCHANGED <<calls, daily, day, webhookUrl, extractorMode, trackedItems, checkRuns,
                 notifications, posts, invocations, peak, probe>>

\* --------------------- sendPriceChangeNotification / sendBackInStock...
\* Both methods have the same shape; run[r].event says which one runs.
AfterSend(r) ==
  LET next == Continue(r, run[r].event, snapshots[run[r].snapshotId])
  IN  [run EXCEPT ![r].pc = next.pc, ![r].event = next.event]

\* notification.updateMany({where: {itemId, snapshotId, eventType}, data})
UpdateMany(itemId, snapshotId, eventType, webhookStatus) ==
  [i \in DOMAIN notifications |->
     IF NotificationKey(notifications[i]) = <<itemId, snapshotId, eventType>>
     THEN [notifications[i] EXCEPT !.webhookStatus = webhookStatus, !.sentAt = day]
     ELSE notifications[i]]

\* the webhook is called without the notification.create before it
ClaimNotificationSkipped(r) ==
  /\ run[r].pc = "claim"
  /\ run' = Goto(r, IF webhookUrl THEN "post" ELSE "mark")
  /\ UNCHANGED <<calls, daily, day, webhookUrl, extractorMode, trackedItems, checkRuns,
                 snapshots, notifications, posts, invocations, peak, probe>>

\* notification.create(...): the claim.  P2002 makes the method return.
ClaimNotification(r) ==
  /\ run[r].pc = "claim"
  /\ IF UniqueViolation(run[r].itemId, run[r].snapshotId, run[r].event)
     THEN /\ run' = AfterSend(r)
          /\ UNCHANGED notifications
     ELSE /\ notifications' = Append(notifications,
               [itemId |-> run[r].itemId, snapshotId |-> run[r].snapshotId,
                eventType |-> run[r].event, webhookStatus |-> NULL, sentAt |-> NULL])
          /\ run' = Goto(r, IF webhookUrl THEN "post" ELSE "mark")
  /\ UNCHANGED <<calls, daily, day, webhookUrl, extractorMode, trackedItems, checkRuns,
                 snapshots, posts, invocations, peak, probe>>

\* no webhook URL: the row is marked with status 0 and nothing is sent
MarkNotConfigured(r) ==
  /\ run[r].pc = "mark"
  /\ notifications' = UpdateMany(run[r].itemId, run[r].snapshotId, run[r].event, 0)
  /\ run' = AfterSend(r)
  /\ UNCHANGED <<calls, daily, day, webhookUrl, extractorMode, trackedItems, checkRuns,
                 snapshots, posts, invocations, peak, probe>>

\* response = await this.priceChangeNotifier(...) / backInStockNotifier(...)
PostWebhook(r) ==
  /\ run[r].pc = "post"
  /\ posts' = Append(posts, <<run[r].itemId, run[r].snapshotId, run[r].event>>)
  /\ run' = Goto(r, "record")
  /\ UNCHANGED <<calls, daily, day, webhookUrl, extractorMode, trackedItems, checkRuns,
                 snapshots, notifications, invocations, peak, probe>>

\* the notifier rejects after the row was given its sentAt
PostWebhookThrowsRecorded(r) ==
  /\ run[r].pc = "post"
  /\ \E delivered \in BOOLEAN :
        posts' = IF delivered
                 THEN Append(posts, <<run[r].itemId, run[r].snapshotId, run[r].event>>)
                 ELSE posts
  /\ notifications' = UpdateMany(run[r].itemId, run[r].snapshotId, run[r].event, 0)
  /\ run' = Throw(r)
  /\ UNCHANGED <<calls, daily, day, webhookUrl, extractorMode, trackedItems, checkRuns,
                 snapshots, invocations, peak, probe>>

\* the notifier rejects: fetch fails before the request leaves, or the
\* request was delivered and reading the response fails
PostWebhookThrows(r) ==
  /\ run[r].pc = "post"
  /\ \E delivered \in BOOLEAN :
        posts' = IF delivered
                 THEN Append(posts, <<run[r].itemId, run[r].snapshotId, run[r].event>>)
                 ELSE posts
  /\ run' = Throw(r)
  /\ UNCHANGED <<calls, daily, day, webhookUrl, extractorMode, trackedItems, checkRuns,
                 snapshots, notifications, invocations, peak, probe>>

\* the row takes the response status and sentAt
RecordDelivery(r) ==
  /\ run[r].pc = "record"
  /\ notifications' = UpdateMany(run[r].itemId, run[r].snapshotId, run[r].event, 204)
  /\ run' = AfterSend(r)
  /\ UNCHANGED <<calls, daily, day, webhookUrl, extractorMode, trackedItems, checkRuns,
                 snapshots, posts, invocations, peak, probe>>

\* checkRun.update({status: "SUCCESS", ...}) and the return
FinalizeSuccess(r) ==
  LET att == run[r].attempt
      row == checkRuns[run[r].checkRunId]
  IN
  /\ run[r].pc = "finalizeSuccess"
  /\ checkRuns' = UpdateCheckRun(run[r].checkRunId,
       [row EXCEPT !.status = "SUCCESS",
                   !.usedPlaywright = att.usedPlaywright,
                   !.usedAi = att.usedAi,
                   !.tokenInput = Assigned(@, att.tokenInput),
                   !.tokenOutput = Assigned(@, att.tokenOutput),
                   !.estimatedCostUsd = Assigned(@, att.estimatedCostUsd),
                   !.finishedAt = day])
  /\ run' = Return(r, "SUCCESS", "success")
  /\ UNCHANGED <<calls, daily, day, webhookUrl, extractorMode, trackedItems,
                 snapshots, notifications, posts, invocations, peak, probe>>

\* a catch handler that leaves finishedAt out of the update
CatchErrorUnfinished(r) ==
  /\ run[r].pc = "catch"
  /\ checkRuns' = UpdateCheckRun(run[r].checkRunId,
       [checkRuns[run[r].checkRunId] EXCEPT !.status = "FAILED",
                                            !.errorCode = CHECK_RUN_FAILED])
  /\ run' = Return(r, "FAILED", "catch")
  /\ UNCHANGED <<calls, daily, day, webhookUrl, extractorMode, trackedItems,
                 snapshots, notifications, posts, invocations, peak, probe>>

\* catch (error): checkRun.update({status: "FAILED", errorCode:
\* "CHECK_RUN_FAILED", ...}) and the return
CatchError(r) ==
  LET row == checkRuns[run[r].checkRunId]
  IN
  /\ run[r].pc = "catch"
  /\ checkRuns' = UpdateCheckRun(run[r].checkRunId,
       [row EXCEPT !.status = "FAILED",
                   !.errorCode = CHECK_RUN_FAILED,
                   !.finishedAt = day])
  /\ run' = Return(r, "FAILED", "catch")
  /\ UNCHANGED <<calls, daily, day, webhookUrl, extractorMode, trackedItems,
                 snapshots, notifications, posts, invocations, peak, probe>>

\* An awaited database call rejects.  Before the try block (findFirst,
\* checkRun.create) and inside the catch handler the rejection leaves
\* runCheckForItem; inside the try block it is caught.
DbPcs == {"findItem", "createRun", "budget", "extract", "finalizeReview",
          "findLatest", "createSnapshot", "claim", "mark", "record",
          "finalizeSuccess", "catch"}

DbError(r) ==
  /\ run[r].pc \in DbPcs
  /\ run' = IF run[r].pc \in {"findItem", "createRun", "catch"}
            THEN Raise(r) ELSE Throw(r)
  /\ UNCHANGED <<calls, daily, day, webhookUrl, extractorMode, trackedItems, checkRuns,
                 snapshots, notifications, posts, invocations, peak, probe>>

\* ------------------------------------------------------ other operations
\* midnight passes: new Date() moves to the next day
Midnight ==
  /\ day < MaxDay
  /\ day' = day + 1
  /\ UNCHANGED <<calls, daily, webhookUrl, extractorMode, trackedItems, checkRuns, snapshots,
                 notifications, posts, run, invocations, peak, probe>>

\* ------------------------------------------------------ specifications
\* The service on one day: every step of runCheckForItem, with the
\* default or an injected extractor, with or without a webhook URL.
Next ==
  \/ \E r \in Slots, itemId \in ItemIds \cup {NoSuchItem} : Invoke(r, itemId)
  \/ \E r \in Slots : FindItem(r)
  \/ \E r \in Slots : CreateCheckRun(r)
  \/ \E r \in Slots : ReadBudget(r)
  \/ \E r \in Slots : ExtractByPipeline(r, Envs)
  \/ \E r \in Slots : FinalizeNonSuccess(r)
  \/ \E r \in Slots : FindLatest(r)
  \/ \E r \in Slots : CreateSnapshot(r)
  \/ \E r \in Slots : ClaimNotification(r)
  \/ \E r \in Slots : MarkNotConfigured(r)
  \/ \E r \in Slots : PostWebhook(r)
  \/ \E r \in Slots : PostWebhookThrows(r)
  \/ \E r \in Slots : RecordDelivery(r)
  \/ \E r \in Slots : FinalizeSuccess(r)
  \/ \E r \in Slots : CatchError(r)
  \/ \E r \in Slots : DbError(r)

Spec == Init /\ [][Next]_vars

\* The same service constructed with an extractor of the caller.
NextInjected ==
  \/ \E r \in Slots, itemId \in ItemIds \cup {NoSuchItem} : Invoke(r, itemId)
  \/ \E r \in Slots : FindItem(r)
  \/ \E r \in Slots : CreateCheckRun(r)
  \/ \E r \in Slots : ReadBudget(r)
  \/ \E r \in Slots : ExtractByInjected(r)
  \/ \E r \in Slots : FinalizeNonSuccess(r)
  \/ \E r \in Slots : FindLatest(r)
  \/ \E r \in Slots : CreateSnapshot(r)
  \/ \E r \in Slots : ClaimNotification(r)
  \/ \E r \in Slots : MarkNotConfigured(r)
  \/ \E r \in Slots : PostWebhook(r)
  \/ \E r \in Slots : PostWebhookThrows(r)
  \/ \E r \in Slots : RecordDelivery(r)
  \/ \E r \in Slots : FinalizeSuccess(r)
  \/ \E r \in Slots : CatchError(r)
  \/ \E r \in Slots : DbError(r)

SpecInjected == InitInjected /\ [][NextInjected]_vars

\* The service over several days, on pages whose price and stock stay the
\* same, so that no notification is due.
InitBudget ==
  /\ day = 1
  /\ webhookUrl = FALSE
  /\ extractorMode = "pipeline"
  /\ trackedItems = [i \in ItemIds |-> [active |-> TRUE]]
  /\ checkRuns = <<>>
  /\ snapshots = <<>>
  /\ notifications = <<>>
  /\ posts = <<>>
  /\ run = [r \in Slots |-> IdleRun]
  /\ invocations = 0
  /\ peak = 0
  /\ calls = NoCalls
  /\ daily = NoDaily
  /\ probe = NoProbe

NextBudget ==
  \/ \E r \in Slots, itemId \in ItemIds : Invoke(r, itemId)
  \/ \E r \in Slots : FindItem(r)
  \/ \E r \in Slots : CreateCheckRun(r)
  \/ \E r \in Slots : ReadBudget(r)
  \/ \E r \in Slots : ExtractByPipeline(r, SteadyEnvs)
  \/ \E r \in Slots : FinalizeNonSuccess(r)
  \/ \E r \in Slots : FindLatest(r)
  \/ \E r \in Slots : CreateSnapshot(r)
  \/ \E r \in Slots : FinalizeSuccess(r)
  \/ \E r \in Slots : CatchError(r)
  \/ \E r \in Slots : DbError(r)
  \/ Midnight

SpecBudget == InitBudget /\ [][NextBudget]_vars

\* didPriceChange applied to every pair of prices a snapshot can hold
ProbeValues == {UNDEF, NULL} \cup 0..MaxProbe

ApplyDidPriceChange ==
  /\ \E a \in ProbeValues, b \in ProbeValues :
        probe' = [fn |-> "didPriceChange", a |-> a, b |-> b,
                  out |-> didPriceChange(a, b)]
  /\ UNCHANGED <<calls, daily, day, webhookUrl, extractorMode, trackedItems, checkRuns,
                 snapshots, notifications, posts, run, invocations, peak>>

SpecDidPriceChange == InitBudget /\ [][ApplyDidPriceChange]_vars

\* ============================================================== url.ts
\* A URL string is a sequence of tokens: the origin, then "/" and path
\* segments, then "?" and the parameters ("=" between key and value, "&"
\* between parameters), then "#" and the fragment.  A key or a value is a
\* run of word tokens.
MaxParams == 2

IndexOf(s, t) ==
  IF \E i \in DOMAIN s : s[i] = t
  THEN CHOOSE i \in DOMAIN s : s[i] = t /\ \A j \in 1..(i - 1) : s[j] # t
  ELSE 0

Before(s, t) == IF IndexOf(s, t) = 0 THEN s ELSE SubSeq(s, 1, IndexOf(s, t) - 1)
After(s, t)  == IF IndexOf(s, t) = 0 THEN <<>> ELSE SubSeq(s, IndexOf(s, t) + 1, Len(s))

startsWith(s, prefix) ==
  Len(s) >= Len(prefix) /\ SubSeq(s, 1, Len(prefix)) = prefix

toLowerCase(s) ==
  [i \in DOMAIN s |-> CASE s[i] = "UTM_" -> "utm_"
                        [] s[i] = "Ref"  -> "ref"
                        [] OTHER         -> s[i]]

\* new URL(input): an empty path of an http(s) URL reads "/"; search and
\* hash are held without their "?" and "#"
ParseUrl(input) ==
  LET noHash   == Before(input, "#")
      pathPart == Before(noHash, "?")
  IN  [origin   |-> pathPart[1],
       pathname |-> IF Len(pathPart) = 1 THEN <<"/">> ELSE Tail(pathPart),
       search   |-> After(noHash, "?"),
       hash     |-> After(input, "#")]

\* url.toString(): "?" and "#" are written only before a non-empty part
toString(url) ==
  <<url.origin>> \o url.pathname
    \o (IF url.search = <<>> THEN <<>> ELSE <<"?">> \o url.search)
    \o (IF url.hash = <<>> THEN <<>> ELSE <<"#">> \o url.hash)

RECURSIVE Split(_, _)
Split(s, sep) ==
  IF IndexOf(s, sep) = 0 THEN <<s>>
  ELSE <<Before(s, sep)>> \o Split(After(s, sep), sep)

\* url.searchParams.entries(): empty pieces between "&" are skipped
searchParams(search) ==
  LET pieces == SelectSeq(Split(search, "&"), LAMBDA p : p # <<>>)
  IN  [i \in 1..Len(pieces) |->
         [key |-> Before(pieces[i], "="), value |-> After(pieces[i], "=")]]

\* what url.searchParams.append leaves in url.search, entry after entry
RECURSIVE SerializeParams(_)
SerializeParams(entries) ==
  IF entries = <<>> THEN <<>>
  ELSE entries[1].key \o <<"=">> \o entries[1].value
         \o (IF Len(entries) > 1
             THEN <<"&">> \o SerializeParams(Tail(entries)) ELSE <<>>)

TRACKING_PARAM_PREFIXES ==
  {<<"utm_">>, <<"fbclid">>, <<"gclid">>, <<"msclkid">>, <<"ref">>,
   <<"ref", "_">>, <<"source">>}

\* collation order of the word tokens
Alphabet == <<"1", "2", "_", "a", "b", "fbclid", "gclid", "id", "msclkid",
              "ref", "Ref", "source", "utm_", "UTM_">>

RECURSIVE localeCompare(_, _)
localeCompare(a, b) ==
  IF a = <<>> /\ b = <<>> THEN 0
  ELSE IF a = <<>> THEN -1
  ELSE IF b = <<>> THEN 1
  ELSE LET Rank(t) == CHOOSE i \in DOMAIN Alphabet : Alphabet[i] = t
       IN  IF Rank(a[1]) < Rank(b[1]) THEN -1
           ELSE IF Rank(a[1]) > Rank(b[1]) THEN 1
           ELSE localeCompare(Tail(a), Tail(b))

\* Array.prototype.sort is stable: an entry stays before later equal keys
RECURSIVE InsertSorted(_, _)
InsertSorted(e, s) ==
  IF s = <<>> THEN <<e>>
  ELSE IF localeCompare(e.key, s[1].key) <= 0 THEN <<e>> \o s
  ELSE <<s[1]>> \o InsertSorted(e, Tail(s))

RECURSIVE SortByKey(_)
SortByKey(s) ==
  IF s = <<>> THEN <<>> ELSE InsertSorted(s[1], SortByKey(Tail(s)))

normalizeTrackedUrl(input) ==
  LET url            == ParseUrl(input)
      entries        == searchParams(url.search)
      paramsToDelete ==
        {entries[i].key : i \in {j \in DOMAIN entries :
            \E prefix \in TRACKING_PARAM_PREFIXES :
               startsWith(toLowerCase(entries[j].key), prefix)}}
      remaining      == SelectSeq(entries, LAMBDA e : e.key \notin paramsToDelete)
      sortedParams   == SortByKey(remaining)
      pathname       ==
        IF Len(url.pathname) > 1 /\ url.pathname[Len(url.pathname)] = "/"
        THEN SubSeq(url.pathname, 1, Len(url.pathname) - 1)
        ELSE url.pathname
  IN  toString([origin   |-> url.origin,
                pathname |-> pathname,
                search   |-> SerializeParams(sortedParams),
                hash     |-> <<>>])

\* the URL strings normalizeTrackedUrl is applied to; what it returns is
\* never empty, so empty stands for not yet applied
Origin == "https://shop.test"

UrlParams ==
  {<<>>, <<"b">>, <<"a", "=", "1">>, <<"a", "=", "2">>, <<"b", "=", "1">>,
   <<"utm_", "source", "=", "1">>, <<"UTM_", "id", "=", "2">>,
   <<"Ref", "=", "1">>, <<"ref", "_", "id", "=", "2">>}

RECURSIVE UrlQueries(_)
UrlQueries(n) ==
  IF n = 0 THEN {<<>>}
  ELSE UrlQueries(n - 1)
         \cup {<<"?">> \o p : p \in UrlParams}
         \cup {q \o <<"&">> \o p : q \in UrlQueries(n - 1) \ {<<>>},
                                  p \in UrlParams}

UrlInputs ==
  LET paths  == {<<>>, <<"/">>, <<"/", "a">>, <<"/", "a", "/">>,
                 <<"/", "a", "/", "/">>, <<"/", "/">>,
                 <<"/", "a", "/", "b">>, <<"/", "a", "/", "b", "/">>}
      hashes == {<<>>, <<"#">>, <<"#", "a">>}
  IN  {<<Origin>> \o p \o q \o h :
         p \in paths, q \in UrlQueries(MaxParams), h \in hashes}

\* the service at rest while a pure function is applied
ServiceAtRest ==
  /\ day = 1
  /\ webhookUrl = FALSE
  /\ extractorMode = "pipeline"
  /\ trackedItems = [i \in ItemIds |-> [active |-> TRUE]]
  /\ checkRuns = <<>>
  /\ snapshots = <<>>
  /\ notifications = <<>>
  /\ posts = <<>>
  /\ run = [r \in Slots |-> IdleRun]
  /\ invocations = 0
  /\ peak = 0
  /\ calls = NoCalls
  /\ daily = NoDaily

InitNormalizeTrackedUrl ==
  /\ ServiceAtRest
  /\ probe \in {[fn |-> "normalizeTrackedUrl", a |-> u, b |-> <<>>,
                 out |-> <<>>] : u \in UrlInputs}

\* normalizeTrackedUrl(u), and normalizeTrackedUrl of what it returned
ApplyNormalizeTrackedUrl ==
  /\ probe.fn = "normalizeTrackedUrl" /\ probe.b = <<>>
  /\ probe' = [probe EXCEPT
                 !.b   = normalizeTrackedUrl(probe.a),
                 !.out = normalizeTrackedUrl(normalizeTrackedUrl(probe.a))]
  /\ UNCHANGED <<calls, daily, day, webhookUrl, extractorMode, trackedItems, checkRuns,
                 snapshots, notifications, posts, run, invocations, peak>>

SpecNormalizeTrackedUrl ==
  InitNormalizeTrackedUrl /\ [][ApplyNormalizeTrackedUrl]_vars

\* ====================================== createItem and deleteItem
\* In this part the TrackedItem table is a sequence of rows in insertion
\* order, the index being the id, with the columns createItem writes.
MaxCalls == 3

\* the URLs handed to createItem: the first two have one canonical URL
ItemUrls ==
  {<<Origin, "/", "a">>, <<Origin, "/", "a", "/">>, <<Origin, "/", "b">>}

\* the pages the initial check meets: a confident page and a page whose
\* fetch answers with a redirect (needs_review)
ItemEnvs == {Env0, [Env0 EXCEPT !.staticFetch = "redirect"]}

\* The locals of one call.  rows and checks count the TrackedItem rows it
\* inserted and the checks it ran; earlier holds the createItem calls of
\* the same URL that had returned when it began with no TrackedItem
\* update since they began; clean says no TrackedItem update since it began.
NewCall(op, pc) ==
  [op |-> op, pc |-> pc, url |-> <<>>, normalizedUrl |-> <<>>, host |-> "",
   id |-> 0, itemId |-> 0, created |-> FALSE, slot |-> 0, error |-> "none",
   rows |-> 0, checks |-> 0, earlier |-> {}, clean |-> TRUE]

\* trackedItem.findFirst({where: {canonicalUrl, active: true}}); 0 for none
FindActiveByCanonicalUrl(normalizedUrl) ==
  LET ids == {i \in DOMAIN trackedItems :
                /\ trackedItems[i].canonicalUrl = normalizedUrl
                /\ trackedItems[i].active}
  IN  IF ids = {} THEN 0 ELSE CHOOSE i \in ids : \A j \in ids : i <= j

\* the unique index on TrackedItem.canonicalUrl: P2002 when it is hit
CanonicalUrlTaken(normalizedUrl) ==
  \E i \in DOMAIN trackedItems : trackedItems[i].canonicalUrl = normalizedUrl

\* createItem(input) up to its first await
CreateItem(url) ==
  /\ Len(calls) < MaxCalls
  /\ calls' = Append(calls,
       [NewCall("createItem", "findExisting") EXCEPT
          !.url = url,
          !.normalizedUrl = normalizeTrackedUrl(url),
          !.host = ParseUrl(normalizeTrackedUrl(url)).origin,
          !.earlier = {d \in DOMAIN calls :
                         /\ calls[d].op = "createItem" /\ calls[d].pc = "returned"
                         /\ calls[d].url = url /\ calls[d].clean}])
  /\ UNCHANGED <<daily, day, webhookUrl, extractorMode, trackedItems, checkRuns,
                 snapshots, notifications, posts, run, invocations, peak, probe>>

\* a findFirst that finds nothing
FindExistingNever(c) ==
  /\ calls[c].pc = "findExisting"
  /\ calls' = [calls EXCEPT ![c].pc = "create"]
  /\ UNCHANGED <<daily, day, webhookUrl, extractorMode, trackedItems, checkRuns,
                 snapshots, notifications, posts, run, invocations, peak, probe>>

\* const existing = await findFirst(...); if (existing) return {created: false}
FindExisting(c) ==
  /\ calls[c].pc = "findExisting"
  /\ LET existing == FindActiveByCanonicalUrl(calls[c].normalizedUrl)
     IN  calls' = IF existing # 0
                  THEN [calls EXCEPT ![c].pc = "returned", ![c].itemId = existing,
                                     ![c].created = FALSE]
                  ELSE [calls EXCEPT ![c].pc = "create"]
  /\ UNCHANGED <<daily, day, webhookUrl, extractorMode, trackedItems, checkRuns,
                 snapshots, notifications, posts, run, invocations, peak, probe>>

\* an insert into a table without the unique index
CreateRowUnchecked(c) ==
  /\ calls[c].pc = "create"
  /\ trackedItems' = Append(trackedItems,
       [url |-> calls[c].url, canonicalUrl |-> calls[c].normalizedUrl,
        siteHost |-> calls[c].host, active |-> TRUE])
  /\ calls' = [calls EXCEPT ![c].pc = "check", ![c].rows = @ + 1,
                            ![c].itemId = Len(trackedItems) + 1]
  /\ UNCHANGED <<daily, day, webhookUrl, extractorMode, checkRuns, snapshots,
                 notifications, posts, run, invocations, peak, probe>>

\* const created = await trackedItem.create({url, canonicalUrl, siteHost});
\* active defaults to true; the insert rejects on the unique index
CreateRow(c) ==
  /\ calls[c].pc = "create"
  /\ IF CanonicalUrlTaken(calls[c].normalizedUrl)
     THEN /\ calls' = [calls EXCEPT ![c].pc = "raised", ![c].error = "P2002"]
          /\ UNCHANGED trackedItems
     ELSE /\ trackedItems' = Append(trackedItems,
               [url |-> calls[c].url, canonicalUrl |-> calls[c].normalizedUrl,
                siteHost |-> calls[c].host, active |-> TRUE])
          /\ calls' = [calls EXCEPT ![c].pc = "check", ![c].rows = @ + 1,
                                    ![c].itemId = Len(trackedItems) + 1]
  /\ UNCHANGED <<daily, day, webhookUrl, extractorMode, checkRuns, snapshots,
                 notifications, posts, run, invocations, peak, probe>>

\* this.runCheckForItem(created.id) is called; a slot whose result another
\* call still awaits is not taken
InitialCheck(c, r) ==
  /\ calls[c].pc = "check"
  /\ \A d \in DOMAIN calls : calls[d].pc = "awaitCheck" => calls[d].slot # r
  /\ Invoked(r, calls[c].itemId)
  /\ calls' = [calls EXCEPT ![c].pc = "awaitCheck", ![c].slot = r,
                            ![c].checks = @ + 1]
  /\ UNCHANGED <<daily, day, webhookUrl, extractorMode, trackedItems, checkRuns,
                 snapshots, notifications, posts, probe>>

\* const initialCheck = await ...; return {itemId, created: true, initialCheck}
AwaitInitialCheck(c) ==
  /\ calls[c].pc = "awaitCheck"
  /\ \/ /\ run[calls[c].slot].pc = "returned"
        /\ calls' = [calls EXCEPT ![c].pc = "returned", ![c].created = TRUE]
     \/ /\ run[calls[c].slot].pc = "raised"
        /\ calls' = [calls EXCEPT ![c].pc = "raised", ![c].error = "check"]
  /\ UNCHANGED <<daily, day, webhookUrl, extractorMode, trackedItems, checkRuns,
                 snapshots, notifications, posts, run, invocations, peak, probe>>

\* findFirst or create rejects for a reason of the database
CreateItemDbError(c) ==
  /\ calls[c].pc \in {"findExisting", "create"}
  /\ calls' = [calls EXCEPT ![c].pc = "raised", ![c].error = "db"]
  /\ UNCHANGED <<daily, day, webhookUrl, extractorMode, trackedItems, checkRuns,
                 snapshots, notifications, posts, run, invocations, peak, probe>>

\* a delete that takes the snapshots of the item with it
DeleteItemCascade(id) ==
  /\ Len(calls) < MaxCalls
  /\ id \in DOMAIN trackedItems
  /\ trackedItems' = [trackedItems EXCEPT ![id].active = FALSE]
  /\ snapshots' = SelectSeq(snapshots, LAMBDA row : row.itemId # id)
  /\ calls' = Append([d \in DOMAIN calls |-> [calls[d] EXCEPT !.clean = FALSE]],
                     [NewCall("deleteItem", "returned") EXCEPT !.id = id])
  /\ UNCHANGED <<daily, day, webhookUrl, extractorMode, checkRuns,
                 notifications, posts, run, invocations, peak, probe>>

\* deleteItem(id): trackedItem.update({where: {id}, data: {active: false}});
\* the update rejects when no row has the id
DeleteItem(id) ==
  /\ Len(calls) < MaxCalls
  /\ IF id \in DOMAIN trackedItems
     THEN /\ trackedItems' = [trackedItems EXCEPT ![id].active = FALSE]
          /\ calls' = Append([d \in DOMAIN calls |->
                                [calls[d] EXCEPT !.clean = FALSE]],
                             [NewCall("deleteItem", "returned") EXCEPT !.id = id])
     ELSE /\ calls' = Append(calls, [NewCall("deleteItem", "raised") EXCEPT
                                       !.id = id, !.error = "db"])
          /\ UNCHANGED trackedItems
  /\ UNCHANGED <<daily, day, webhookUrl, extractorMode, checkRuns, snapshots,
                 notifications, posts, run, invocations, peak, probe>>

InitItems ==
  /\ day = 1
  /\ webhookUrl = FALSE
  /\ extractorMode = "pipeline"
  /\ trackedItems = <<>>
  /\ checkRuns = <<>>
  /\ snapshots = <<>>
  /\ notifications = <<>>
  /\ posts = <<>>
  /\ run = [r \in Slots |-> IdleRun]
  /\ invocations = 0
  /\ peak = 0
  /\ probe = NoProbe
  /\ calls = NoCalls
  /\ daily = NoDaily

\* createItem and deleteItem calls in any interleaving; every check is the
\* initial check of a createItem, the first of its item, so no
\* notification is due
NextItems ==
  \/ \E url \in ItemUrls : CreateItem(url)
  \/ \E id \in 1..MaxCalls : DeleteItem(id)
  \/ \E c \in DOMAIN calls :
        \/ FindExisting(c)
        \/ CreateRow(c)
        \/ \E r \in Slots : InitialCheck(c, r)
        \/ AwaitInitialCheck(c)
        \/ CreateItemDbError(c)
  \/ \E r \in Slots :
        \/ FindItem(r)
        \/ CreateCheckRun(r)
        \/ ReadBudget(r)
        \/ ExtractByPipeline(r, ItemEnvs)
        \/ FinalizeNonSuccess(r)
        \/ FindLatest(r)
        \/ CreateSnapshot(r)
        \/ FinalizeSuccess(r)
        \/ CatchError(r)
        \/ DbError(r)

SpecItems == InitItems /\ [][NextItems]_vars

\* ========================================================= runDailyChecks
\* One runDailyChecks call.  What matters of a runCheckForItem invocation
\* here is when it starts, when it ends and whether it returns or throws:
\* its item lookup is the step of the service above, the rest of it
\* (checked step by step under Spec) is one step that returns or throws.
MaxDailyItems == 27
TakeLimit     == 200
BatchSize     == 25
Concurrency   == 3

\* the invocation for an item is held in the slot of the item's id
DailySlots == 1..MaxDailyItems

\* chunk(items, size)
RECURSIVE chunk(_, _)
chunk(items, size) ==
  IF items = <<>> THEN <<>>
  ELSE IF Len(items) <= size THEN <<items>>
  ELSE <<SubSeq(items, 1, size)>> \o chunk(SubSeq(items, size + 1, Len(items)), size)

\* trackedItem.findMany({where: {active: true}, orderBy: {createdAt: "asc"},
\* take}): ids are handed out in the order of creation
RECURSIVE FindManyActive(_, _)
FindManyActive(from, take) ==
  IF take = 0 \/ from \notin DOMAIN trackedItems THEN <<>>
  ELSE IF trackedItems[from].active
       THEN <<from>> \o FindManyActive(from + 1, take - 1)
       ELSE FindManyActive(from + 1, take)

\* the locals of the call and the state of its limiter: batches is
\* chunk(items, 25), batchNo the batch being awaited, queue the calls the
\* limiter holds back, slots the invocations it has started and not yet
\* seen end, batchOf the batch of the invocation in each slot, started the
\* items whose check was started, in order
LoadedDaily(items) ==
  [pc |-> IF items = <<>> THEN "returned" ELSE "await",
   items |-> items, batches |-> chunk(items, BatchSize),
   batchNo |-> IF items = <<>> THEN 0 ELSE 1,
   queue |-> IF items = <<>> THEN <<>> ELSE chunk(items, BatchSize)[1],
   slots |-> {}, batchOf |-> [r \in DailySlots |-> 0],
   rejected |-> FALSE, started |-> <<>>]

\* runDailyChecks(): findMany, pLimit(3), and the first batch handed to the
\* limiter; no batch at all when there is no active item
RunDailyChecks ==
  /\ daily.pc = "idle"
  /\ daily' = LoadedDaily(FindManyActive(1, TakeLimit))
  /\ UNCHANGED <<calls, day, webhookUrl, extractorMode, trackedItems, checkRuns,
                 snapshots, notifications, posts, run, invocations, peak, probe>>

\* findMany rejects
DailyDbError ==
  /\ daily.pc = "idle"
  /\ daily' = [LoadedDaily(<<>>) EXCEPT !.pc = "raised"]
  /\ UNCHANGED <<calls, day, webhookUrl, extractorMode, trackedItems, checkRuns,
                 snapshots, notifications, posts, run, invocations, peak, probe>>

DailyInFlight == Cardinality({r \in DailySlots : Active(r)})

DailyStarted(r) ==
  /\ daily.pc \in {"await", "raised"}
  /\ daily.queue # <<>>
  /\ r = Head(daily.queue)
  /\ daily' = [daily EXCEPT !.queue = Tail(@), !.slots = @ \cup {r},
                            !.batchOf[r] = daily.batchNo,
                            !.started = Append(@, r)]
  /\ invocations' = invocations + 1
  /\ peak' = Max(peak, DailyInFlight + 1)
  /\ run' = [run EXCEPT ![r] = [IdleRun EXCEPT !.pc = "findItem",
                                               !.inv = invocations + 1,
                                               !.itemId = r]]
  /\ UNCHANGED <<calls, day, webhookUrl, extractorMode, trackedItems, checkRuns,
                 snapshots, notifications, posts, probe>>

\* a limiter that starts every call at once
DailyStartUnlimited(r) == DailyStarted(r)

\* limit(() => this.runCheckForItem(item.id)): the limiter starts the call
\* at the head of its queue when fewer than 3 are active
DailyStart(r) ==
  /\ Cardinality(daily.slots) < Concurrency
  /\ DailyStarted(r)

\* the rest of runCheckForItem after the item was found: it returns or
\* throws, and the limiter frees its place; a rejection rejects the
\* Promise.all of the batch
CheckSettles(r) ==
  /\ run[r].pc = "createRun"
  /\ r \in daily.slots
  /\ run' = [run EXCEPT ![r] = IdleRun]
  /\ \E raised \in BOOLEAN :
        daily' = [daily EXCEPT !.slots = @ \ {r}, !.rejected = @ \/ raised]
  /\ UNCHANGED <<calls, day, webhookUrl, extractorMode, trackedItems,
                 checkRuns, snapshots, notifications, posts, invocations, peak,
                 probe>>

\* the same for an invocation that threw "Tracked item not found"
DailySettle(r) ==
  /\ r \in daily.slots
  /\ run[r].pc = "raised"
  /\ daily' = [daily EXCEPT !.slots = @ \ {r}, !.rejected = TRUE]
  /\ run' = [run EXCEPT ![r] = IdleRun]
  /\ UNCHANGED <<calls, day, webhookUrl, extractorMode, trackedItems, checkRuns,
                 snapshots, notifications, posts, invocations, peak, probe>>

\* a loop that hands the next batch over without awaiting the one before
DailyNextBatchEarly ==
  /\ daily.pc = "await" /\ ~daily.rejected
  /\ IF daily.batchNo < Len(daily.batches)
     THEN daily' = [daily EXCEPT !.batchNo = @ + 1,
                                 !.queue = @ \o daily.batches[daily.batchNo + 1]]
     ELSE daily' = [daily EXCEPT !.pc = "returned"]
  /\ UNCHANGED <<calls, day, webhookUrl, extractorMode, trackedItems, checkRuns,
                 snapshots, notifications, posts, run, invocations, peak, probe>>

\* await Promise.all(...) resolves when every check of the batch has
\* returned: the loop hands the next batch to the limiter, or the call
\* returns after the last one
DailyNextBatch ==
  /\ daily.queue = <<>> /\ daily.slots = {}
  /\ DailyNextBatchEarly

\* await Promise.all(...) rejects with the first rejection: the error
\* leaves runDailyChecks; the calls already queued are still run
DailyReject ==
  /\ daily.pc = "await" /\ daily.rejected
  /\ daily' = [daily EXCEPT !.pc = "raised"]
  /\ UNCHANGED <<calls, day, webhookUrl, extractorMode, trackedItems, checkRuns,
                 snapshots, notifications, posts, run, invocations, peak, probe>>

\* a table of MaxDailyItems items: one of them deactivated, or all
InitDaily ==
  /\ day = 1
  /\ webhookUrl = FALSE
  /\ extractorMode = "pipeline"
  /\ trackedItems \in {[i \in 1..MaxDailyItems |-> [active |-> i \notin off]] :
                         off \in {{2}, 1..MaxDailyItems}}
  /\ checkRuns = <<>>
  /\ snapshots = <<>>
  /\ notifications = <<>>
  /\ posts = <<>>
  /\ run = [r \in DailySlots |-> IdleRun]
  /\ invocations = 0
  /\ peak = 0
  /\ probe = NoProbe
  /\ calls = NoCalls
  /\ daily = NoDaily

\* one deleteItem call may be made, of an item the sweep has loaded and
\* not yet checked
NextDaily ==
  \/ RunDailyChecks
  \/ /\ calls = NoCalls /\ daily.pc = "await" /\ daily.started = <<>>
     /\ DeleteItem(3)
  \/ DailyDbError
  \/ DailyNextBatch
  \/ DailyReject
  \/ \E r \in DailySlots :
        \/ DailyStart(r)
        \/ FindItem(r)
        \/ CheckSettles(r)
        \/ DailySettle(r)

SpecDaily == InitDaily /\ [][NextDaily]_vars

\* ===================================== extractFromHtml: the confidence
\* Confidences are in hundredths.  A candidate is what one of the five
\* extractors pushes: whether it has a productName, its priceCents (a
\* number, or null for a JSON-LD entry that is out of stock without a
\* price) and its base confidence.
MaxCandidates == 3

Candidate(source, productName, priceCents, confidence) ==
  [source |-> source, productName |-> productName, priceCents |-> priceCents,
   confidence |-> confidence]

SourceOrder == <<"jsonld", "meta", "embedded", "dom", "body">>

\* extractJsonLdCandidates: a Product entry with a name and a price that is
\* not 0, or with availability false (0.88, the price then null or 0);
\* extractMetaCandidates, extractEmbeddedProductCandidates and
\* extractDomCandidates: a price parsePriceFromText accepted, so positive
CandidatesOf(source) ==
  CASE source = "jsonld" ->
         {Candidate("jsonld", TRUE, p, IF IsNumber(p) /\ p # 0 THEN 95 ELSE 88) :
            p \in {NULL} \cup 0..MaxPrice}
    [] source = "meta" ->
         {Candidate("meta", n, p, 82) : n \in BOOLEAN, p \in 1..MaxPrice}
    [] source = "embedded" ->
         {Candidate("embedded", n, p, c) :
            n \in BOOLEAN, p \in 1..MaxPrice, c \in {92, 86}}
    [] source = "dom" ->
         {Candidate("dom", n, p, 72) : n \in BOOLEAN, p \in 1..MaxPrice}
    [] source = "body" ->
         {Candidate("body", n, p, 60) : n \in BOOLEAN, p \in 1..MaxPrice}

\* the candidate lists of at most n entries, in the order extractFromHtml
\* pushes them (from the source at position from on), at most one from meta
RECURSIVE CandidateLists(_, _)
CandidateLists(from, n) ==
  IF n = 0 \/ from > Len(SourceOrder) THEN {<<>>}
  ELSE CandidateLists(from + 1, n)
         \cup {<<c>> \o rest :
                 c \in CandidatesOf(SourceOrder[from]),
                 rest \in CandidateLists(
                            IF SourceOrder[from] = "meta" THEN from + 1 ELSE from,
                            n - 1)}

\* .sort((a, b) => b.confidence - a.confidence), stable
RECURSIVE InsertByConfidence(_, _)
InsertByConfidence(e, s) ==
  IF s = <<>> THEN <<e>>
  ELSE IF e.confidence >= s[1].confidence THEN <<e>> \o s
  ELSE <<s[1]>> \o InsertByConfidence(e, Tail(s))

RECURSIVE SortByConfidence(_)
SortByConfidence(s) ==
  IF s = <<>> THEN <<>> ELSE InsertByConfidence(s[1], SortByConfidence(Tail(s)))

chooseBestCandidate(candidates) ==
  IF candidates = <<>>
  THEN Candidate("none", FALSE, UNDEF, 0)
  ELSE
    LET score(c) == c.confidence + (IF c.productName THEN 5 ELSE 0)
                      + (IF IsNumber(c.priceCents) /\ c.priceCents # 0 THEN 5 ELSE 0)
        sorted == SortByConfidence(
                    [i \in DOMAIN candidates |->
                       [candidates[i] EXCEPT !.confidence =
                          IF score(candidates[i]) < 99 THEN score(candidates[i]) ELSE 99]])
        top    == sorted[1]
    IN  IF /\ Len(sorted) >= 2
           /\ IsNumber(sorted[2].priceCents)
           /\ IsNumber(top.priceCents)
           /\ top.priceCents # sorted[2].priceCents
           /\ sorted[2].confidence > top.confidence - 5
        THEN [top EXCEPT !.confidence = Max(50, top.confidence - 10)]
        ELSE top

\* the confidence extractFromHtml returns for the candidates it collected
\* and the stockState detectStockStatus found
extractFromHtml(candidates, stockState) ==
  LET bestCandidate == chooseBestCandidate(candidates)
  IN  IF stockState # "UNKNOWN"
      THEN Max(bestCandidate.confidence, IF stockState = "PARTIAL" THEN 80 ELSE 75)
      ELSE bestCandidate.confidence

InitExtractFromHtml ==
  /\ ServiceAtRest
  /\ probe \in {[fn |-> "extractFromHtml", a |-> cs, b |-> st, out |-> UNDEF] :
                  cs \in CandidateLists(1, MaxCandidates),
                  st \in {"UNKNOWN", "IN_STOCK", "OUT_OF_STOCK", "PARTIAL"}}

ApplyExtractFromHtml ==
  /\ probe.fn = "extractFromHtml" /\ probe.out = UNDEF
  /\ probe' = [probe EXCEPT !.out = extractFromHtml(probe.a, probe.b)]
  /\ UNCHANGED <<calls, daily, day, webhookUrl, extractorMode, trackedItems,
                 checkRuns, snapshots, notifications, posts, run, invocations,
                 peak>>

SpecExtractFromHtml == InitExtractFromHtml /\ [][ApplyExtractFromHtml]_vars

\* ================================================== extractProductFromUrl
\* One extractProductFromUrl call, one step per strategy.  probe holds the
\* locals of the call; probe.tried lists the strategies in the order their
\* request was made ("bestBuy", "shopify", "static", "rendered", "ai").
isRedirectStatus(status) == status >= 300 /\ status < 400
ResponseOk(status)       == status >= 200 /\ status <= 299

\* extractFromHtml of a page, by price, stock state and confidence
Page(price, state, conf) ==
  MkResult(TRUE, price, inStockFromState(state), state, FALSE, conf, "static", FALSE, FALSE)

PipelineEnvs ==
  LET statuses == {200, 299, 300, 399, 400}
      pages    == { Page(p, st, c) : p \in {NULL, 1}, st \in {"IN_STOCK", "OUT_OF_STOCK"},
                                     c \in {outOfStockVerifyThreshold - 1, outOfStockVerifyThreshold,
                                            aiConfidenceThreshold - 1, aiConfidenceThreshold} }
      renders  == {Absent} \cup
                  { Present(Page(1, "IN_STOCK", c)) :
                      c \in {outOfStockVerifyThreshold, aiConfidenceThreshold + 2} }
  IN  { [bestBuy |-> bb, shopify |-> sh, status |-> s, regional |-> rg,
         static |-> pg, rendered |-> rd, ai |-> a] :
          bb \in {Absent, Present(MkResult(TRUE, NULL, "null", "UNKNOWN", FALSE, 96,
                                           "static", FALSE, FALSE))},
          sh \in {Absent} \cup { Present(res) : res \in ShopifyResults },
          s \in statuses, rg \in BOOLEAN, pg \in pages, rd \in renders,
          a \in AiAnswers }

InitPipeline ==
  /\ ServiceAtRest
  /\ probe \in { [fn |-> "extractProductFromUrl", env |-> e,
                  allowPlaywright |-> pw, allowAi |-> ai,
                  pc |-> "bestBuy", tried |-> <<>>, extracted |-> NoResult,
                  usedPlaywright |-> FALSE, usedAi |-> FALSE,
                  status |-> "none", hasResult |-> FALSE, reason |-> NoString] :
                  e \in PipelineEnvs, pw \in BOOLEAN, ai \in BOOLEAN }

PipelineStep(next) ==
  /\ probe.fn = "extractProductFromUrl"
  /\ probe' = next
  /\ UNCHANGED <<calls, daily, day, webhookUrl, extractorMode, trackedItems,
                 checkRuns, snapshots, notifications, posts, run, invocations,
                 peak>>

\* return { status, result, usedPlaywright, usedAi }
ReturnSuccess(p, result) ==
  [p EXCEPT !.pc = "returned", !.status = "success", !.hasResult = TRUE,
            !.extracted = result]

\* return { status: "needs_review", reason, usedPlaywright, usedAi }
ReturnNeedsReview(p, reason) ==
  [p EXCEPT !.pc = "returned", !.status = "needs_review", !.reason = reason]

TryExtractFromBestBuyApi ==
  LET p == [probe EXCEPT !.tried = Append(@, "bestBuy")]
  IN  /\ probe.pc = "bestBuy"
      /\ PipelineStep(IF probe.env.bestBuy.present
                      THEN ReturnSuccess(p, probe.env.bestBuy.result)
                      ELSE [p EXCEPT !.pc = "shopify"])

TryExtractFromShopifyJson ==
  LET p == [probe EXCEPT !.tried = Append(@, "shopify")]
  IN  /\ probe.pc = "shopify"
      /\ PipelineStep(IF probe.env.shopify.present
                      THEN ReturnSuccess(p, probe.env.shopify.result)
                      ELSE [p EXCEPT !.pc = "static"])

\* a static fetch that lets every status but 2xx raise a plain error
FetchPageHtmlNoRedirectTest ==
  LET p == [probe EXCEPT !.tried = Append(@, "static")]
  IN  /\ probe.pc = "static"
      /\ PipelineStep(
           IF ~ResponseOk(probe.env.status) THEN [p EXCEPT !.pc = "thrown"]
           ELSE IF probe.env.regional THEN ReturnNeedsReview(p, REGIONAL_REDIRECT_MISMATCH)
           ELSE [p EXCEPT !.pc = "rendered", !.extracted = probe.env.static])

\* fetchPageHtml, the catch around it, hasRegionalHostRedirectMismatch and
\* extractFromHtml of the static page
FetchPageHtml ==
  LET p == [probe EXCEPT !.tried = Append(@, "static")]
  IN  /\ probe.pc = "static"
      /\ PipelineStep(
           IF isRedirectStatus(probe.env.status) THEN ReturnNeedsReview(p, URL_REDIRECT_BLOCKED)
           ELSE IF ~ResponseOk(probe.env.status) THEN [p EXCEPT !.pc = "thrown"]
           ELSE IF probe.env.regional THEN ReturnNeedsReview(p, REGIONAL_REDIRECT_MISMATCH)
           ELSE [p EXCEPT !.pc = "rendered", !.extracted = probe.env.static])

\* the condition of the rendered fetch
ShouldRender(extracted, allowPlaywright) ==
  /\ extracted.confidence < aiConfidenceThreshold
  /\ allowPlaywright
  /\ (extracted.inStock # "false" \/ extracted.confidence < outOfStockVerifyThreshold)

\* a rendered extraction that also replaces one of equal confidence
FetchRenderedHtmlOnTie ==
  LET rendered == probe.env.rendered
      p == [probe EXCEPT !.tried = Append(@, "rendered"), !.pc = "ai"]
  IN  /\ probe.pc = "rendered"
      /\ PipelineStep(
           IF ~ShouldRender(probe.extracted, probe.allowPlaywright)
           THEN [probe EXCEPT !.pc = "ai"]
           ELSE IF ~rendered.present THEN p
           ELSE IF rendered.result.confidence >= probe.extracted.confidence
           THEN [p EXCEPT !.usedPlaywright = TRUE,
                          !.extracted = [rendered.result EXCEPT !.method = "playwright"]]
           ELSE [p EXCEPT !.usedPlaywright = TRUE])

\* the rendered fetch and extractFromHtml of the rendered page
FetchRenderedHtml ==
  LET rendered == probe.env.rendered
      p == [probe EXCEPT !.tried = Append(@, "rendered"), !.pc = "ai"]
  IN  /\ probe.pc = "rendered"
      /\ PipelineStep(
           IF ~ShouldRender(probe.extracted, probe.allowPlaywright)
           THEN [probe EXCEPT !.pc = "ai"]
           ELSE IF ~rendered.present THEN p
           ELSE IF rendered.result.confidence > probe.extracted.confidence
           THEN [p EXCEPT !.usedPlaywright = TRUE,
                          !.extracted = [rendered.result EXCEPT !.method = "playwright"]]
           ELSE [p EXCEPT !.usedPlaywright = TRUE])

\* the AI fallback: the allowAi test, extractWithAi and the merge of its reply
ExtractWithAi ==
  LET ai == probe.env.ai
      p  == [probe EXCEPT !.tried = Append(@, "ai")]
  IN  /\ probe.pc = "ai"
      /\ PipelineStep(
           IF ~(/\ probe.extracted.confidence < aiConfidenceThreshold
                /\ shouldUseAiFallback(probe.extracted, outOfStockVerifyThreshold))
           THEN [probe EXCEPT !.pc = "gate"]
           ELSE IF ~probe.allowAi
           THEN ReturnNeedsReview(probe, AI_BUDGET_EXCEEDED_OR_DISABLED)
           ELSE IF ai.outcome = "nokey" THEN [probe EXCEPT !.pc = "thrown"]
           ELSE IF ai.outcome = "reject" THEN [p EXCEPT !.pc = "thrown"]
           ELSE [p EXCEPT !.pc = "gate", !.usedAi = TRUE,
                          !.extracted = [probe.extracted EXCEPT
                                           !.productName  = ai.reply.productName,
                                           !.priceCents   = ai.reply.priceCents,
                                           !.inStock      = ai.reply.inStock,
                                           !.stockState   = ai.reply.stockState,
                                           !.variantStock = ai.reply.variantStock,
                                           !.confidence   = AiConfidence,
                                           !.method       = "ai"]])

\* the last test of the pipeline and its two returns
FinalGate ==
  /\ probe.pc = "gate"
  /\ PipelineStep(
       IF \/ ~probe.extracted.productName
          \/ probe.extracted.confidence < FinalGateConfidence
          \/ (probe.extracted.inStock # "false" /\ ~IsNumber(probe.extracted.priceCents))
       THEN ReturnNeedsReview(probe, LOW_CONFIDENCE_EXTRACTION)
       ELSE ReturnSuccess(probe, probe.extracted))

NextPipeline ==
  \/ TryExtractFromBestBuyApi
  \/ TryExtractFromShopifyJson
  \/ FetchPageHtml
  \/ FetchRenderedHtml
  \/ ExtractWithAi
  \/ FinalGate

SpecPipeline == InitPipeline /\ [][NextPipeline]_vars

\* ==================================================== shouldUseAiFallback
StockStates == {"IN_STOCK", "OUT_OF_STOCK", "PARTIAL", "UNKNOWN"}

InitShouldUseAiFallback ==
  /\ ServiceAtRest
  /\ probe \in { [fn |-> "shouldUseAiFallback",
                  a |-> MkResult(TRUE, NULL, stock, state, variants, conf, "static", eo, ei),
                  b |-> t, applied |-> FALSE, out |-> FALSE] :
                  stock \in {"true", "false", "null"}, state \in StockStates,
                  variants \in BOOLEAN, eo \in BOOLEAN, ei \in BOOLEAN,
                  t \in {60, outOfStockVerifyThreshold, 95},
                  conf \in {59, 60, 61, outOfStockVerifyThreshold - 1,
                            outOfStockVerifyThreshold, outOfStockVerifyThreshold + 1,
                            94, 95, 96} }

ApplyShouldUseAiFallback ==
  /\ probe.fn = "shouldUseAiFallback" /\ ~probe.applied
  /\ probe' = [probe EXCEPT !.applied = TRUE,
                            !.out = shouldUseAiFallback(probe.a, probe.b)]
  /\ UNCHANGED <<calls, daily, day, webhookUrl, extractorMode, trackedItems,
                 checkRuns, snapshots, notifications, posts, run, invocations,
                 peak>>

SpecShouldUseAiFallback ==
  InitShouldUseAiFallback /\ [][ApplyShouldUseAiFallback]_vars

\* ====================================================== detectStockStatus
\* The part of detectStockStatus after the page was scanned: the scores
\* (in tenths), the flags and the counts it collected are the inputs.
MaxVariants == 2     \* known-in and known-out variants of a page

\* in and out scores: around the margins 2 and 3 of the rules
Scores == {0, 10, 19, 20, 21, 29, 30, 31, 50}

\* rule 4 without its score test
inferStockStateFromScoresCtaWins(inScore, outScore, options) ==
  IF options.hasExplicitInAvailability /\ ~options.hasExplicitOutAvailability
  THEN "IN_STOCK"
  ELSE IF /\ options.hasExplicitOutAvailability
          /\ ~options.hasExplicitInAvailability
          /\ options.enabledPurchaseCtaCount = 0
  THEN "OUT_OF_STOCK"
  ELSE IF /\ options.embeddedOutCount > 0
          /\ options.embeddedInCount = 0
          /\ options.enabledPurchaseCtaCount = 0
  THEN "OUT_OF_STOCK"
  ELSE IF options.enabledPurchaseCtaCount > 0
  THEN "IN_STOCK"
  ELSE IF outScore >= inScore + 30 /\ outScore >= 30
  THEN "OUT_OF_STOCK"
  ELSE IF inScore >= outScore + 20 /\ inScore >= 20
  THEN "IN_STOCK"
  ELSE "UNKNOWN"

inferStockStateFromScores(inScore, outScore, options) ==
  IF options.hasExplicitInAvailability /\ ~options.hasExplicitOutAvailability
  THEN "IN_STOCK"
  ELSE IF /\ options.hasExplicitOutAvailability
          /\ ~options.hasExplicitInAvailability
          /\ options.enabledPurchaseCtaCount = 0
  THEN "OUT_OF_STOCK"
  ELSE IF /\ options.embeddedOutCount > 0
          /\ options.embeddedInCount = 0
          /\ options.enabledPurchaseCtaCount = 0
  THEN "OUT_OF_STOCK"
  ELSE IF options.enabledPurchaseCtaCount > 0 /\ inScore >= outScore - 20
  THEN "IN_STOCK"
  ELSE IF outScore >= inScore + 30 /\ outScore >= 30
  THEN "OUT_OF_STOCK"
  ELSE IF inScore >= outScore + 20 /\ inScore >= 20
  THEN "IN_STOCK"
  ELSE "UNKNOWN"

inferStockStateFromVariants(variantInCount, variantOutCount) ==
  IF variantInCount > 0 /\ variantOutCount > 0 THEN "PARTIAL"
  ELSE IF variantInCount > 0 THEN "IN_STOCK"
  ELSE IF variantOutCount > 0 THEN "OUT_OF_STOCK"
  ELSE "UNKNOWN"

\* pageState, variantState and the returned { inStock, stockState }
detectStockStatus(inScore, outScore, options, variantInCount, variantOutCount) ==
  LET pageState    == inferStockStateFromScores(inScore, outScore, options)
      variantState == inferStockStateFromVariants(variantInCount, variantOutCount)
      stockState   == IF variantState = "UNKNOWN" THEN pageState
                      ELSE IF pageState = "UNKNOWN" \/ pageState = variantState
                      THEN variantState
                      ELSE "PARTIAL"
  IN  [pageState |-> pageState, variantState |-> variantState,
       stockState |-> stockState, inStock |-> inStockFromState(stockState)]

InitDetectStockStatus ==
  /\ ServiceAtRest
  /\ probe \in { [fn |-> "detectStockStatus", inScore |-> i, outScore |-> o,
                  options |-> [hasExplicitOutAvailability |-> eo,
                               hasExplicitInAvailability |-> ei,
                               enabledPurchaseCtaCount |-> cta,
                               embeddedOutCount |-> bo,
                               embeddedInCount |-> bi],
                  variantInCount |-> vi, variantOutCount |-> vo,
                  applied |-> FALSE,
                  out |-> [pageState |-> "UNKNOWN", variantState |-> "UNKNOWN",
                           stockState |-> "UNKNOWN", inStock |-> "null"]] :
                  i \in Scores, o \in Scores, eo \in BOOLEAN, ei \in BOOLEAN,
                  cta \in 0..1, bo \in 0..1, bi \in 0..1,
                  vi \in 0..MaxVariants, vo \in 0..MaxVariants }

ApplyDetectStockStatus ==
  /\ probe.fn = "detectStockStatus" /\ ~probe.applied
  /\ probe' = [probe EXCEPT
                 !.applied = TRUE,
                 !.out = detectStockStatus(probe.inScore, probe.outScore, probe.options,
                                           probe.variantInCount, probe.variantOutCount)]
  /\ UNCHANGED <<calls, daily, day, webhookUrl, extractorMode, trackedItems,
                 checkRuns, snapshots, notifications, posts, run, invocations,
                 peak>>

SpecDetectStockStatus == InitDetectStockStatus /\ [][ApplyDetectStockStatus]_vars

\* ================================================ parseShopifyPriceCents
\* The endpoints getShopifyProductJsonEndpoints builds for /products/widget
\* (the extension spelled out by character), and the price of a payload:
\*   kind "number" : the number whole + frac/100 (an integer when frac = 0)
\*   kind "string" : the digits of whole, followed by "." and two digits of
\*                   frac when point is TRUE
\*   kind "none"   : neither a number nor a string
ShopifyEndpoint(extension) ==
  <<Origin, "/", "products", "/", "widget">> \o extension

ShopifyEndpoints ==
  {ShopifyEndpoint(<<".", "j", "s">>), ShopifyEndpoint(<<".", "j", "s", "o", "n">>)}

ShopifyPrices ==
  { [kind |-> "number", whole |-> w, frac |-> f, point |-> FALSE] :
      w \in 0..MaxProbe, f \in {0, 50, 99} } \cup
  { [kind |-> "string", whole |-> w, frac |-> 0, point |-> FALSE] : w \in 0..MaxProbe } \cup
  { [kind |-> "string", whole |-> w, frac |-> f, point |-> TRUE] :
      w \in 0..MaxProbe, f \in {0, 50, 99} } \cup
  { [kind |-> "none", whole |-> 0, frac |-> 0, point |-> FALSE] }

\* parsePriceFromText of digits "." two digits
parsePriceFromText(whole, frac) ==
  IF whole * 100 + frac <= 0 THEN NULL ELSE whole * 100 + frac

parseShopifyPriceCents(value, assumeIntegerIsCents) ==
  IF value.kind = "number"
  THEN IF value.frac = 0 /\ assumeIntegerIsCents
       THEN IF value.whole > 0 THEN value.whole ELSE NULL
       ELSE IF value.whole * 100 + value.frac > 0
            THEN value.whole * 100 + value.frac ELSE NULL
  ELSE IF value.kind # "string" THEN NULL
  ELSE IF ~value.point
  THEN IF value.whole <= 0 THEN NULL
       ELSE IF assumeIntegerIsCents THEN value.whole
       ELSE value.whole * 100
  ELSE parsePriceFromText(value.whole, value.frac)

\* const assumeIntegerIsCents = endpointUrl.toLowerCase().includes(".js")
assumeIntegerIsCents(endpointUrl) ==
  Includes(toLowerCase(endpointUrl), <<".", "j", "s">>)

InitShopifyPrice ==
  /\ ServiceAtRest
  /\ probe \in { [fn |-> "parseShopifyPriceCents", endpointUrl |-> e, price |-> v,
                  applied |-> FALSE, out |-> NULL] :
                  e \in ShopifyEndpoints, v \in ShopifyPrices }

\* extractFromShopifyPayload reading the price of a variant
ApplyShopifyPrice ==
  /\ probe.fn = "parseShopifyPriceCents" /\ ~probe.applied
  /\ probe' = [probe EXCEPT
                 !.applied = TRUE,
                 !.out = parseShopifyPriceCents(probe.price,
                                                assumeIntegerIsCents(probe.endpointUrl))]
  /\ UNCHANGED <<calls, daily, day, webhookUrl, extractorMode, trackedItems,
                 checkRuns, snapshots, notifications, posts, run, invocations,
                 peak>>

SpecShopifyPrice == InitShopifyPrice /\ [][ApplyShopifyPrice]_vars

\* ================================================ extractFromBestBuyPayload
\* The availability of a Best Buy payload.  A string is the sequence of
\* its parts ("Unavailable" is <<"Un", "available">>), so that includes
\* finds "available" inside it.
AvailabilityToLowerCase(s) ==
  [i \in DOMAIN s |-> CASE s[i] = "InStock"    -> "instock"
                        [] s[i] = "OutOfStock" -> "outofstock"
                        [] s[i] = "SoldOut"    -> "soldout"
                        [] s[i] = "Backorder"  -> "backorder"
                        [] s[i] = "Available"  -> "available"
                        [] s[i] = "Un"         -> "un"
                        [] s[i] = "Not"        -> "not"
                        [] OTHER               -> s[i]]

\* String(record.availability?.onlineAvailability ?? "")
OnlineAvailabilities ==
  {<<>>, <<"InStock">>, <<"InStock", "OnlineOnly">>, <<"OutOfStock">>, <<"SoldOut">>,
   <<"Backorder", "ed">>, <<"ComingSoon">>, <<"Not", "Available">>}

\* String(record.availability?.inStoreAvailability ?? "")
InStoreAvailabilities == {<<>>, <<"Available">>, <<"Un", "available">>, <<"ComingSoon">>}

\* the stockState of extractFromBestBuyPayload; isAvailableOnline is what
\* normalizeBoolean returned
BestBuyStockState(onlineAvailability, isAvailableOnline, inStoreAvailability) ==
  LET online  == AvailabilityToLowerCase(onlineAvailability)
      inStore == AvailabilityToLowerCase(inStoreAvailability)
  IN  IF Includes(online, <<"instock">>) \/ isAvailableOnline = "true"
      THEN "IN_STOCK"
      ELSE IF \/ Includes(online, <<"outofstock">>)
              \/ Includes(online, <<"soldout">>)
              \/ Includes(online, <<"backorder">>)
              \/ isAvailableOnline = "false"
      THEN "OUT_OF_STOCK"
      ELSE IF Includes(inStore, <<"available">>)
      THEN "IN_STOCK"
      ELSE "UNKNOWN"

InitBestBuyStock ==
  /\ ServiceAtRest
  /\ probe \in { [fn |-> "extractFromBestBuyPayload", onlineAvailability |-> on,
                  isAvailableOnline |-> b, inStoreAvailability |-> st,
                  applied |-> FALSE, stockState |-> "UNKNOWN", inStock |-> "null"] :
                  on \in OnlineAvailabilities, b \in {"true", "false", "null"},
                  st \in InStoreAvailabilities }

ApplyBestBuyStock ==
  LET stockState == BestBuyStockState(probe.onlineAvailability, probe.isAvailableOnline,
                                      probe.inStoreAvailability)
  IN
  /\ probe.fn = "extractFromBestBuyPayload" /\ ~probe.applied
  /\ probe' = [probe EXCEPT !.applied = TRUE,
                            !.stockState = stockState,
                            !.inStock = inStockFromState(stockState)]
  /\ UNCHANGED <<calls, daily, day, webhookUrl, extractorMode, trackedItems,
                 checkRuns, snapshots, notifications, posts, run, invocations,
                 peak>>

SpecBestBuyStock == InitBestBuyStock /\ [][ApplyBestBuyStock]_vars

\* ======================================== stockState and inStock by path
\* What extractWithAi and extractFromShopifyPayload make of stock answers.
\* the normalisation that keeps the answered inStock whatever the state
normalizeInStockKeepsAnswer(inStock, state) == inStock

normalizeInStockFromState(inStock, state) ==
  IF state \in {"IN_STOCK", "PARTIAL"} THEN "true"
  ELSE IF state = "OUT_OF_STOCK" THEN "false"
  ELSE inStock

normalizeAiStockState(state, inStock, variantInCount, variantOutCount) ==
  LET variantState == inferStockStateFromVariants(variantInCount, variantOutCount)
  IN  IF state # "UNKNOWN" THEN state
      ELSE IF variantState # "UNKNOWN" THEN variantState
      ELSE IF inStock = "true" THEN "IN_STOCK"
      ELSE IF inStock = "false" THEN "OUT_OF_STOCK"
      ELSE "UNKNOWN"

\* the reply of the model after AI_RESPONSE_SCHEMA.parse: stockState and
\* inStock as answered (UNKNOWN and null when left out), and how many
\* entries of variantStock are in and out of stock
InitAiStock ==
  /\ ServiceAtRest
  /\ probe \in { [fn |-> "extractWithAi",
                  answer |-> [stockState |-> st, inStock |-> b],
                  variantInCount |-> vi, variantOutCount |-> vo,
                  applied |-> FALSE, stockState |-> "UNKNOWN", inStock |-> "null"] :
                  st \in StockStates, b \in {"true", "false", "null"},
                  vi \in 0..MaxVariants, vo \in 0..MaxVariants }

ApplyAiStock ==
  LET aiStockState == normalizeAiStockState(probe.answer.stockState, probe.answer.inStock,
                                            probe.variantInCount, probe.variantOutCount)
  IN
  /\ probe.fn = "extractWithAi" /\ ~probe.applied
  /\ probe' = [probe EXCEPT
                 !.applied = TRUE,
                 !.stockState = aiStockState,
                 !.inStock = normalizeInStockFromState(probe.answer.inStock, aiStockState)]
  /\ UNCHANGED <<calls, daily, day, webhookUrl, extractorMode, trackedItems,
                 checkRuns, snapshots, notifications, posts, run, invocations,
                 peak>>

\* a Shopify payload: its variants by availability, and what
\* parseShopifyAvailability made of product.available
InitShopifyStock ==
  /\ ServiceAtRest
  /\ probe \in { [fn |-> "extractFromShopifyPayload", productAvailable |-> b,
                  variantInCount |-> vi, variantOutCount |-> vo,
                  applied |-> FALSE, stockState |-> "UNKNOWN", inStock |-> "null"] :
                  b \in {"true", "false", "null"},
                  vi \in 0..MaxVariants, vo \in 0..MaxVariants }

ApplyShopifyStock ==
  LET variantState == inferStockStateFromVariants(probe.variantInCount, probe.variantOutCount)
      stockState == IF variantState # "UNKNOWN" THEN variantState
                    ELSE IF probe.productAvailable = "true" THEN "IN_STOCK"
                    ELSE IF probe.productAvailable = "false" THEN "OUT_OF_STOCK"
                    ELSE "UNKNOWN"
      inStock == IF inStockFromState(stockState) # "null"
                 THEN inStockFromState(stockState)
                 ELSE probe.productAvailable
  IN
  /\ probe.fn = "extractFromShopifyPayload" /\ ~probe.applied
  /\ probe' = [probe EXCEPT !.applied = TRUE, !.stockState = stockState,
                            !.inStock = inStock]
  /\ UNCHANGED <<calls, daily, day, webhookUrl, extractorMode, trackedItems,
                 checkRuns, snapshots, notifications, posts, run, invocations,
                 peak>>

\* every producer of an ExtractResult's stockState and inStock
InitStockByPath ==
  \/ InitDetectStockStatus
  \/ InitShopifyStock
  \/ InitBestBuyStock
  \/ InitAiStock

NextStockByPath ==
  \/ ApplyDetectStockStatus
  \/ ApplyShopifyStock
  \/ ApplyBestBuyStock
  \/ ApplyAiStock

SpecStockByPath == InitStockByPath /\ [][NextStockByPath]_vars

\* ================================================================ claims
HasReturned(r) == run[r].pc = "returned"
HasRaised(r)   == run[r].pc = "raised"
HasEnded(r)    == HasReturned(r) \/ HasRaised(r)

\* the rows an invocation created
CheckRunsOf(inv) == {i \in DOMAIN checkRuns : checkRuns[i].inv = inv}
SnapshotsOf(inv) == {i \in DOMAIN snapshots : snapshots[i].inv = inv}

\* the CheckRun row of the invocation in slot r
RowOf(r) == checkRuns[run[r].checkRunId]

\* a Notification row / a webhook POST for the snapshot of the invocation
NotifiedFor(r, eventType) ==
  \E i \in DOMAIN notifications :
     NotificationKey(notifications[i]) = <<run[r].itemId, run[r].snapshotId, eventType>>
PostedFor(r, eventType) ==
  \E i \in DOMAIN posts : posts[i] = <<run[r].itemId, run[r].snapshotId, eventType>>

\* the estimatedCostUsd recorded on the AI runs started on day d
RecordedCost(d) == SumEstimatedCost(checkRuns, d) - SumEstimatedCost(checkRuns, d + 1)

\* C1: in every interleaving of check runs there is at most one
\* Notification row and at most one webhook POST per key (itemId,
\* snapshotId, eventType), and a POST is performed only for a key whose
\* Notification row was inserted.
C1_AtMostOncePerKey ==
  /\ \A i, j \in DOMAIN notifications :
        NotificationKey(notifications[i]) = NotificationKey(notifications[j]) => i = j
  /\ \A i, j \in DOMAIN posts : posts[i] = posts[j] => i = j
  /\ \A i \in DOMAIN posts :
        \E j \in DOMAIN notifications : NotificationKey(notifications[j]) = posts[i]

\* two concurrent runs on the same item have both sent their webhook
C1_Witness ==
  \E r, q \in Slots :
     /\ r # q
     /\ run[r].pc = "record" /\ run[q].pc = "record"
     /\ run[r].itemId = run[q].itemId
     /\ Len(posts) = 2

\* C2: an invocation that returned SUCCESS created exactly one
\* PriceSnapshot, and one that returned FAILED or NEEDS_REVIEW created none.
C2_SnapshotIffSuccess ==
  \A r \in Slots :
     HasReturned(r) =>
       /\ run[r].status = "SUCCESS" => Cardinality(SnapshotsOf(run[r].inv)) = 1
       /\ run[r].status \in {"FAILED", "NEEDS_REVIEW"} => SnapshotsOf(run[r].inv) = {}

\* C3 as stated: every invocation that ended, for any itemId, created
\* exactly one CheckRun row.
C3_ExactlyOneCheckRun ==
  \A r \in Slots :
     HasEnded(r) => Cardinality(CheckRunsOf(run[r].inv)) = 1

\* C3 amended: an invocation creates at most one CheckRun row; it creates
\* none and raises when no active item has the id or when the lookup or
\* the insert fails, and exactly one in every other case.
C3_OneCheckRunWhenItemFound ==
  \A r \in Slots :
     run[r].pc # "idle" =>
       /\ Cardinality(CheckRunsOf(run[r].inv)) <= 1
       /\ HasEnded(r) /\ ~ActiveItem(run[r].itemId) =>
             HasRaised(r) /\ CheckRunsOf(run[r].inv) = {}
       /\ HasRaised(r) /\ run[r].branch \in {"findItem", "createRun"} =>
             CheckRunsOf(run[r].inv) = {}
       /\ HasRaised(r) /\ run[r].branch = "catch" =>
             Cardinality(CheckRunsOf(run[r].inv)) = 1
       /\ HasReturned(r) => Cardinality(CheckRunsOf(run[r].inv)) = 1

\* one invocation raised for an id without an active item and left no
\* row, another returned and left one
C3_Witness ==
  \E r, q \in Slots :
     /\ HasRaised(r) /\ run[r].branch = "findItem" /\ ~ActiveItem(run[r].itemId)
     /\ CheckRunsOf(run[r].inv) = {}
     /\ HasReturned(q) /\ Cardinality(CheckRunsOf(run[q].inv)) = 1

C5_OvershootBound ==
  \A d \in 1..MaxDay :
     RecordedCost(d) <= DailyBudgetUsd + peak * MaxCallCost

\* C6: the CheckRun row of a run that made the AI call holds usedAi and
\* the token counts and cost of the call, whatever the run's status.
C6_UsageCaptured ==
  \A r \in Slots :
     HasReturned(r) /\ run[r].aiCalled =>
       /\ RowOf(r).usedAi
       /\ RowOf(r).tokenInput = run[r].aiTokenInput
       /\ RowOf(r).tokenOutput = run[r].aiTokenOutput
       /\ RowOf(r).estimatedCostUsd = run[r].aiCost

\* C7: a run that returned SUCCESS dispatched BACK_IN_STOCK exactly when
\* the snapshot it read as the latest has inStock false and its own has
\* inStock true, and PRICE_CHANGED exactly when both have a numeric
\* priceCents and the two differ; a dispatched notification has its row
\* and, with a webhook URL, its POST, and one not dispatched has neither.
C7_DispatchedIffDue ==
  \A r \in Slots :
     HasReturned(r) /\ run[r].status = "SUCCESS" =>
       LET hasPrev == run[r].latest # 0
           prev == snapshots[run[r].latest]
           new  == snapshots[run[r].snapshotId]
           backInStock == hasPrev /\ prev.inStock = "false" /\ new.inStock = "true"
           priceChanged == /\ hasPrev
                           /\ prev.priceCents \in Nat /\ new.priceCents \in Nat
                           /\ prev.priceCents # new.priceCents
       IN  /\ NotifiedFor(r, "BACK_IN_STOCK") <=> backInStock
           /\ PostedFor(r, "BACK_IN_STOCK") <=> (backInStock /\ webhookUrl)
           /\ NotifiedFor(r, "PRICE_CHANGED") <=> priceChanged
           /\ PostedFor(r, "PRICE_CHANGED") <=> (priceChanged /\ webhookUrl)

\* a successful run after a snapshot without a price: the item is back in
\* stock, BACK_IN_STOCK went out and PRICE_CHANGED did not
C7_Witness ==
  \E r \in Slots :
     /\ HasReturned(r) /\ run[r].status = "SUCCESS"
     /\ run[r].latest # 0
     /\ snapshots[run[r].latest].priceCents = NULL
     /\ snapshots[run[r].snapshotId].priceCents \in Nat
     /\ PostedFor(r, "BACK_IN_STOCK")
     /\ ~NotifiedFor(r, "PRICE_CHANGED")

\* C8: didPriceChange(prev, cur) is false when prev equals cur, false when
\* either is null or undefined, and true exactly when both are numbers
\* and differ.
C8_DidPriceChange ==
  probe.fn = "didPriceChange" =>
    /\ probe.a = probe.b => ~probe.out
    /\ probe.a \in {NULL, UNDEF} \/ probe.b \in {NULL, UNDEF} => ~probe.out
    /\ probe.out <=> (probe.a \in Nat /\ probe.b \in Nat /\ probe.a # probe.b)

\* didPriceChange(null, 1) was computed and is false
C8_Witness ==
  probe.fn = "didPriceChange" /\ probe.a = NULL /\ probe.b = 1 /\ ~probe.out

\* C9: when the extractor returned needs_review, the CheckRun is stored as
\* NEEDS_REVIEW exactly when the reason contains AI_BUDGET, LOW_CONFIDENCE,
\* REGIONAL_REDIRECT or REDIRECT_BLOCKED and as FAILED otherwise, the
\* errorCode is the reason or UNKNOWN_EXTRACTION_ERROR when there is none,
\* and the returned status is the stored one.
C9_ReviewStatus ==
  [][\A r \in Slots :
       /\ run[r].pc = "finalizeReview"
       /\ run[r].attempt.status = "needs_review"
       /\ run'[r].pc = "returned"
       => LET att == run[r].attempt
              row == checkRuns'[run[r].checkRunId]
              listed == /\ att.hasReason
                        /\ \E needle \in {<<"AI", "BUDGET">>, <<"LOW", "CONFIDENCE">>,
                                            <<"REGIONAL", "REDIRECT">>,
                                            <<"REDIRECT", "BLOCKED">>} :
                              Includes(att.reason, needle)
          IN  /\ row.status = IF listed THEN "NEEDS_REVIEW" ELSE "FAILED"
              /\ row.errorCode = IF att.hasReason THEN att.reason
                                  ELSE <<"UNKNOWN", "EXTRACTION", "ERROR">>
              /\ run'[r].status = row.status]_vars

\* one run was stored FAILED for a reason outside the list, one
\* NEEDS_REVIEW for a reason that contains LOW_CONFIDENCE, one FAILED
\* with UNKNOWN_EXTRACTION_ERROR
C9_Witness ==
  /\ \E i \in DOMAIN checkRuns :
        checkRuns[i].status = "NEEDS_REVIEW"
        /\ checkRuns[i].errorCode = <<"VERY", "LOW", "CONFIDENCE">>
  /\ \E i \in DOMAIN checkRuns :
        checkRuns[i].status = "FAILED"
        /\ checkRuns[i].errorCode \in {<<"BLOCKED", "REDIRECT">>,
                                        <<"UNKNOWN", "EXTRACTION", "ERROR">>}

\* C10 as stated: no invocation of runCheckForItem ends by raising.
C10_NeverRaised ==
  \A r \in Slots : ~HasRaised(r)

\* C10 amended: runCheckForItem raises only when no active item has the
\* id or when a database call outside the try block (the item lookup, the
\* CheckRun insert, the update of the catch handler) rejects; an exception
\* of the extractor, of a database step inside the try block or of a
\* notifier stores FAILED with CHECK_RUN_FAILED and returns FAILED.
C10_RaisedOnlyOutsideTry ==
  \A r \in Slots :
     /\ HasRaised(r) => run[r].branch \in {"findItem", "createRun", "catch"}
     /\ HasReturned(r) /\ run[r].branch = "catch" =>
           /\ run[r].status = "FAILED"
           /\ RowOf(r).status = "FAILED"
           /\ RowOf(r).errorCode = CHECK_RUN_FAILED
           /\ RowOf(r).finishedAt # NULL

\* one invocation raised "Tracked item not found", another caught an
\* exception and returned FAILED
C10_Witness ==
  \E r, q \in Slots :
     /\ HasRaised(r) /\ run[r].branch = "findItem"
     /\ HasReturned(q) /\ run[q].branch = "catch" /\ run[q].status = "FAILED"
     /\ RowOf(q).errorCode = CHECK_RUN_FAILED

\* C11: every CheckRun is created with status FAILED and finishedAt unset;
\* when its invocation has returned it is finalized (finishedAt set, not
\* before startedAt, status SUCCESS, NEEDS_REVIEW or FAILED); and a
\* finalized CheckRun is never updated again, so it is finalized once.
C11_FinalizedOnce ==
  /\ [](\A r \in Slots :
          HasReturned(r) =>
            /\ RowOf(r).finishedAt # NULL
            /\ RowOf(r).finishedAt >= RowOf(r).startedAt
            /\ RowOf(r).status \in {"SUCCESS", "NEEDS_REVIEW", "FAILED"}
            /\ RowOf(r).status = run[r].status)
  /\ [][/\ Len(checkRuns') >= Len(checkRuns)
        /\ \A i \in DOMAIN checkRuns' :
              /\ i \notin DOMAIN checkRuns =>
                    checkRuns'[i].status = "FAILED" /\ checkRuns'[i].finishedAt = NULL
              /\ i \in DOMAIN checkRuns /\ checkRuns[i].finishedAt # NULL =>
                    checkRuns'[i] = checkRuns[i]]_vars

\* a run that began before midnight returned SUCCESS after it
C11_Witness ==
  \E r \in Slots :
     /\ HasReturned(r) /\ run[r].status = "SUCCESS"
     /\ RowOf(r).status = "SUCCESS"
     /\ RowOf(r).finishedAt > RowOf(r).startedAt


\* C17: normalizeTrackedUrl is idempotent: normalizing a normalized URL
\* gives the same URL.
C17_Idempotent ==
  probe.fn = "normalizeTrackedUrl" /\ probe.b # <<>> => probe.out = probe.b

C13_SecondCallReturnsExisting ==
  \A c \in DOMAIN calls :
     /\ calls[c].op = "createItem"
     /\ calls[c].pc \in {"returned", "raised"} /\ calls[c].error # "db"
     /\ calls[c].clean
     => \A d \in calls[c].earlier :
           /\ calls[c].pc = "returned"
           /\ calls[c].itemId = calls[d].itemId
           /\ calls[c].created = FALSE
           /\ calls[c].rows = 0 /\ calls[c].checks = 0

\* the first call inserted the row and ran the initial check, the second
\* call of the same URL returned the row's id
C13_Witness ==
  \E c \in DOMAIN calls :
     /\ calls[c].op = "createItem" /\ calls[c].pc = "returned" /\ calls[c].clean
     /\ \E d \in calls[c].earlier :
           /\ calls[d].created /\ calls[d].rows = 1 /\ calls[d].checks = 1
           /\ calls[c].itemId = calls[d].itemId
           /\ ~calls[c].created

\* C15: no step updates or deletes a PriceSnapshot row; a row is appended
\* only by an invocation whose extraction succeeded; a TrackedItem row is
\* never removed and changes only by active becoming false, in a step that
\* leaves the snapshots, check runs and notifications as they were.
C15_SnapshotsAppendOnly ==
  [][/\ Len(snapshots') >= Len(snapshots)
     /\ \A i \in DOMAIN snapshots : snapshots'[i] = snapshots[i]
     /\ Len(snapshots') > Len(snapshots) =>
          /\ Len(snapshots') = Len(snapshots) + 1
          /\ \E r \in Slots :
                /\ run[r].attempt.status = "success"
                /\ run[r].attempt.hasResult
                /\ snapshots'[Len(snapshots')].inv = run[r].inv
                /\ snapshots'[Len(snapshots')].itemId = run[r].itemId
     /\ Len(trackedItems') >= Len(trackedItems)
     /\ \A id \in DOMAIN trackedItems :
           trackedItems'[id] # trackedItems[id] =>
             /\ trackedItems'[id] = [trackedItems[id] EXCEPT !.active = FALSE]
             /\ snapshots' = snapshots
             /\ checkRuns' = checkRuns
             /\ notifications' = notifications]_vars

\* an item that was checked with success and then deleted: its row, its
\* snapshot and its check run are still there
C15_Witness ==
  \E id \in DOMAIN trackedItems :
     /\ ~trackedItems[id].active
     /\ \E i \in DOMAIN snapshots : snapshots[i].itemId = id
     /\ \E i \in DOMAIN checkRuns :
           checkRuns[i].itemId = id /\ checkRuns[i].status = "SUCCESS"
     /\ \E c \in DOMAIN calls :
           calls[c].op = "deleteItem" /\ calls[c].id = id /\ calls[c].pc = "returned"

\* C14: during runDailyChecks at most 3 runCheckForItem invocations are in
\* flight, no batch holds more than 25 items, and every invocation in
\* flight belongs to the batch being awaited while every item of an
\* earlier batch has had its check started and ended.
C14_LimitAndBatches ==
  /\ DailyInFlight <= 3
  /\ daily.pc # "idle" =>
       /\ \A b \in DOMAIN daily.batches : Len(daily.batches[b]) <= 25
       /\ \A r \in DailySlots : Active(r) => daily.batchOf[r] = daily.batchNo
       /\ \A b \in DOMAIN daily.batches : b < daily.batchNo =>
            \A k \in DOMAIN daily.batches[b] :
               /\ \E i \in DOMAIN daily.started :
                     daily.started[i] = daily.batches[b][k]
               /\ \A r \in DailySlots :
                     Active(r) => run[r].itemId # daily.batches[b][k]

\* the second batch is under way: 3 checks were in flight at once, the
\* 25 checks of the first batch have ended and a check of the 26th item
\* is in flight
C14_Witness ==
  /\ daily.pc = "await" /\ daily.batchNo = 2
  /\ Len(daily.batches[1]) = 25
  /\ peak = 3
  /\ \E r \in DailySlots : Active(r) /\ daily.batchOf[r] = 2

\* C16: two invocations on the same item that read the same prior snapshot
\* and each sent PRICE_CHANGED did so for two different new snapshots, each
\* under a Notification row of its own, and no two Notification rows share
\* a key (itemId, snapshotId, eventType); the witness shows such an
\* execution exists.
C16_DuplicateAlertDistinctKeys ==
  \A r, q \in Slots :
     /\ r # q
     /\ run[r].itemId = run[q].itemId
     /\ run[r].latest # 0 /\ run[r].latest = run[q].latest
     /\ PostedFor(r, "PRICE_CHANGED") /\ PostedFor(q, "PRICE_CHANGED")
     => /\ run[r].snapshotId # run[q].snapshotId
        /\ NotifiedFor(r, "PRICE_CHANGED") /\ NotifiedFor(q, "PRICE_CHANGED")
        /\ \A i, j \in DOMAIN notifications :
              i # j => NotificationKey(notifications[i]) # NotificationKey(notifications[j])

\* both invocations compared their new snapshot, of the same new price, to
\* the snapshot that was there before either began, and both alerts went out
C16_Witness ==
  \E r, q \in Slots :
     /\ r # q
     /\ run[r].itemId = run[q].itemId
     /\ run[r].latest # 0 /\ run[r].latest = run[q].latest
     /\ snapshots[run[r].latest].inv = 0
     /\ run[r].snapshotId # 0 /\ run[q].snapshotId # 0
     /\ run[r].snapshotId # run[q].snapshotId
     /\ snapshots[run[r].snapshotId].priceCents = snapshots[run[q].snapshotId].priceCents
     /\ snapshots[run[r].snapshotId].priceCents # snapshots[run[r].latest].priceCents
     /\ PostedFor(r, "PRICE_CHANGED") /\ PostedFor(q, "PRICE_CHANGED")
     /\ Len(posts) >= 2

\* C18: extractFromHtml returns a confidence below 0.85 when every
\* candidate comes from the body-text scan, and at least 0.85 when a
\* JSON-LD Product candidate with a name and a numeric price is among the
\* candidates, whatever the other candidates and the stock state.
C18_ConfidenceBands ==
  probe.fn = "extractFromHtml" /\ probe.out # UNDEF =>
    /\ (/\ probe.a # <<>>
        /\ \A i \in DOMAIN probe.a : probe.a[i].source = "body")
       => probe.out < 85
    /\ (\E i \in DOMAIN probe.a :
           /\ probe.a[i].source = "jsonld" /\ probe.a[i].productName
           /\ IsNumber(probe.a[i].priceCents))
       => probe.out >= 85

\* C19: runCheckForItem passes allowAi = true only when the remaining daily
\* budget it read is above 0; extractProductFromUrl called with allowAi =
\* false never calls the AI, and when it reaches the AI fallback it returns
\* needs_review with reason AI_BUDGET_EXCEEDED_OR_DISABLED, usedAi = false
\* and no token counts or cost.
C19_AiOnlyWhenAllowed ==
  [][\A r \in Slots :
        /\ run[r].pc = "budget" /\ run'[r].pc = "extract" /\ run'[r].allowAi
           => DailyBudgetUsd - SumEstimatedCost(checkRuns, day) > 0
        /\ run[r].pc = "extract" /\ run'[r].pc # "extract" /\ ~run[r].allowAi
           => /\ ~run'[r].aiCalled
              /\ run'[r].aiCost = 0
              /\ run'[r].aiWanted =>
                   /\ run'[r].pc = "finalizeReview"
                   /\ run'[r].attempt.status = "needs_review"
                   /\ run'[r].attempt.hasReason
                   /\ run'[r].attempt.reason = AI_BUDGET_EXCEEDED_OR_DISABLED
                   /\ ~run'[r].attempt.usedAi
                   /\ run'[r].attempt.tokenInput = UNDEF
                   /\ run'[r].attempt.tokenOutput = UNDEF
                   /\ run'[r].attempt.estimatedCostUsd = UNDEF]_vars

\* a run that read a spent budget reached the AI fallback and was answered
\* needs_review without an AI call
C19_Witness ==
  \E r \in Slots :
     /\ run[r].pc = "finalizeReview"
     /\ ~run[r].allowAi /\ run[r].exhausted
     /\ run[r].aiWanted /\ ~run[r].aiCalled
     /\ run[r].attempt.reason = AI_BUDGET_EXCEEDED_OR_DISABLED

\* C20: every ExtractionAttempt with status success that extractProductFromUrl
\* hands to runCheckForItem carries either a numeric priceCents or
\* inStock = false, on every path (Best Buy adapter, Shopify adapter, static,
\* rendered, AI), and hence every persisted PriceSnapshot whose priceCents is
\* null has inStock = false.
C20_SuccessHasPriceOrOutOfStock ==
  /\ \A r \in DOMAIN run :
       (run[r].attempt.status = "success" /\ run[r].attempt.hasResult)
         => \/ IsNumber(run[r].attempt.result.priceCents)
            \/ run[r].attempt.result.inStock = "false"
  /\ \A i \in DOMAIN snapshots :
       snapshots[i].priceCents = NULL => snapshots[i].inStock = "false"

\* the position of a strategy in the order of the pipeline
StrategyRank(s) ==
  CASE s = "bestBuy" -> 1 [] s = "shopify" -> 2 [] s = "static" -> 3
    [] s = "rendered" -> 4 [] s = "ai" -> 5

PipelineEnded == probe.pc \in {"returned", "thrown"}

\* C21: the strategies of one extractProductFromUrl call run in the order
\* Best Buy adapter, Shopify adapter, static HTML, rendered fetch, AI, none
\* of the first three being skipped; a non-null adapter result is returned
\* at once as success with usedPlaywright = false and usedAi = false and no
\* later strategy runs; a 3xx status of the static fetch returns needs_review
\* URL_REDIRECT_BLOCKED with no later strategy, any other status outside 2xx
\* raises.
C21_StrategyOrder ==
  LET tried == probe.tried
      env   == probe.env
  IN
  /\ \A i, j \in DOMAIN tried : i < j => StrategyRank(tried[i]) < StrategyRank(tried[j])
  /\ \A i \in DOMAIN tried : StrategyRank(tried[i]) <= 3 => StrategyRank(tried[i]) = i
  /\ (PipelineEnded /\ env.bestBuy.present) =>
        /\ probe.pc = "returned" /\ probe.status = "success" /\ probe.hasResult
        /\ probe.extracted = env.bestBuy.result
        /\ ~probe.usedPlaywright /\ ~probe.usedAi
        /\ tried = <<"bestBuy">>
  /\ (PipelineEnded /\ ~env.bestBuy.present /\ env.shopify.present) =>
        /\ probe.pc = "returned" /\ probe.status = "success" /\ probe.hasResult
        /\ probe.extracted = env.shopify.result
        /\ ~probe.usedPlaywright /\ ~probe.usedAi
        /\ tried = <<"bestBuy", "shopify">>
  /\ (PipelineEnded /\ ~env.bestBuy.present /\ ~env.shopify.present
        /\ env.status \in 300..399) =>
        /\ probe.pc = "returned" /\ probe.status = "needs_review" /\ ~probe.hasResult
        /\ probe.reason = URL_REDIRECT_BLOCKED
        /\ ~probe.usedPlaywright /\ ~probe.usedAi
        /\ tried = <<"bestBuy", "shopify", "static">>
  /\ (PipelineEnded /\ ~env.bestBuy.present /\ ~env.shopify.present
        /\ env.status \notin 200..399) =>
        /\ probe.pc = "thrown"
        /\ tried = <<"bestBuy", "shopify", "static">>

\* a call answered by the Shopify adapter on a URL whose page would redirect
C21_Witness ==
  /\ probe.fn = "extractProductFromUrl" /\ probe.pc = "returned"
  /\ ~probe.env.bestBuy.present /\ probe.env.shopify.present
  /\ probe.env.status = 300
  /\ probe.status = "success"

\* C22: shouldUseAiFallback(result, t) is the gate of the specification for
\* every combination of inStock, stockState, embedded-out and embedded-in
\* evidence, variantStock emptiness and confidence: true if inStock is not
\* false; else false if stockState is OUT_OF_STOCK with an embedded-out
\* signal and no embedded-in signal; else true if stockState is PARTIAL or
\* variantStock is non-empty; else true exactly when confidence < t.
C22_AiFallbackGate ==
  (probe.fn = "shouldUseAiFallback" /\ probe.applied) =>
    LET r == probe.a
        skip == r.stockState = "OUT_OF_STOCK" /\ r.embOut /\ ~r.embIn
    IN  probe.out <=>
          \/ r.inStock # "false"
          \/ /\ ~skip
             /\ \/ r.stockState = "PARTIAL"
                \/ r.variantStock
                \/ r.confidence < probe.b

\* an out-of-stock result without variants or embedded signals whose
\* confidence equals the threshold: the gate answers false
C22_Witness ==
  /\ probe.fn = "shouldUseAiFallback" /\ probe.applied
  /\ probe.a.inStock = "false" /\ probe.a.stockState = "OUT_OF_STOCK"
  /\ ~probe.a.embOut /\ ~probe.a.variantStock
  /\ probe.a.confidence = probe.b
  /\ ~probe.out

\* the call got past the rendered-fetch block with the static page extracted
PastRendered ==
  /\ probe.fn = "extractProductFromUrl"
  /\ ~probe.env.bestBuy.present /\ ~probe.env.shopify.present
  /\ probe.env.status \in 200..299 /\ ~probe.env.regional
  /\ probe.pc \notin {"bestBuy", "shopify", "static", "rendered"}

\* C23: the rendered fetch is attempted if and only if the static confidence
\* is below aiConfidenceThreshold, allowPlaywright is true and inStock is not
\* false or the confidence is below outOfStockVerifyThreshold; the rendered
\* extraction replaces the static one only when its confidence is strictly
\* greater, and then method is playwright; usedPlaywright is true whenever
\* a rendered page was obtained, also when its result is not used.
C23_RenderedFetch ==
  PastRendered =>
    LET static   == probe.env.static
        rendered == probe.env.rendered
        attempted == \E i \in DOMAIN probe.tried : probe.tried[i] = "rendered"
    IN
    /\ attempted <=>
         /\ static.confidence < aiConfidenceThreshold
         /\ probe.allowPlaywright
         /\ (static.inStock # "false" \/ static.confidence < outOfStockVerifyThreshold)
    /\ probe.usedPlaywright <=> (attempted /\ rendered.present)
    /\ ~probe.usedAi =>
         IF attempted /\ rendered.present /\ rendered.result.confidence > static.confidence
         THEN probe.extracted = [rendered.result EXCEPT !.method = "playwright"]
         ELSE probe.extracted = static

\* a rendered page of the same confidence as the static one was obtained
\* and not used
C23_Witness ==
  /\ PastRendered /\ probe.pc = "ai"
  /\ probe.usedPlaywright
  /\ probe.env.rendered.result.confidence = probe.env.static.confidence
  /\ probe.extracted = probe.env.static
  /\ probe.extracted.method = "static"

\* C24: the final stock state of extractFromHtml is PARTIAL when the
\* variants include both known-in and known-out ones; the variant state
\* when it agrees with the page state or the page state is UNKNOWN; and
\* the page state otherwise (a variant state IN_STOCK or OUT_OF_STOCK that
\* disagrees with a known page state, or no known variants).
C24_FinalStockState ==
  (probe.fn = "detectStockStatus" /\ probe.applied) =>
    LET pageState    == probe.out.pageState
        variantState == probe.out.variantState
    IN  probe.out.stockState =
          IF probe.variantInCount > 0 /\ probe.variantOutCount > 0 THEN "PARTIAL"
          ELSE IF variantState = pageState \/ pageState = "UNKNOWN" THEN variantState
          ELSE pageState

\* C27: inferStockStateFromScores applies seven rules in order, for every
\* combination of flags and scores: explicit-in without explicit-out gives
\* IN_STOCK; explicit-out without explicit-in and no enabled CTA gives
\* OUT_OF_STOCK; embedded-out > 0 with embedded-in = 0 and no enabled CTA
\* gives OUT_OF_STOCK; an enabled CTA with inScore >= outScore - 2 gives
\* IN_STOCK; outScore >= inScore + 3 and outScore >= 3 gives OUT_OF_STOCK;
\* inScore >= outScore + 2 and inScore >= 2 gives IN_STOCK; else UNKNOWN.
C27_ScoreRules ==
  (probe.fn = "detectStockStatus" /\ probe.applied) =>
    LET o  == probe.options
        i  == probe.inScore
        u  == probe.outScore
        rules == <<
          [if |-> o.hasExplicitInAvailability /\ ~o.hasExplicitOutAvailability,
           then |-> "IN_STOCK"],
          [if |-> o.hasExplicitOutAvailability /\ ~o.hasExplicitInAvailability
                    /\ o.enabledPurchaseCtaCount = 0,
           then |-> "OUT_OF_STOCK"],
          [if |-> o.embeddedOutCount > 0 /\ o.embeddedInCount = 0
                    /\ o.enabledPurchaseCtaCount = 0,
           then |-> "OUT_OF_STOCK"],
          [if |-> o.enabledPurchaseCtaCount > 0 /\ i >= u - 20,
           then |-> "IN_STOCK"],
          [if |-> u >= i + 30 /\ u >= 30, then |-> "OUT_OF_STOCK"],
          [if |-> i >= u + 20 /\ i >= 20, then |-> "IN_STOCK"],
          [if |-> TRUE, then |-> "UNKNOWN"] >>
        first == CHOOSE k \in 1..7 : rules[k].if /\ \A j \in 1..(k - 1) : ~rules[j].if
    IN  probe.out.pageState = rules[first].then

\* an enabled purchase button whose page scores 3 more out than in: rule 4
\* does not apply, rule 5 does
C27_Witness ==
  /\ probe.fn = "detectStockStatus" /\ probe.applied
  /\ ~probe.options.hasExplicitInAvailability
  /\ ~probe.options.hasExplicitOutAvailability
  /\ probe.options.enabledPurchaseCtaCount > 0
  /\ probe.outScore = probe.inScore + 30
  /\ probe.out.pageState = "OUT_OF_STOCK"

\* C25: the Shopify adapter reads an integer price (a number without
\* fraction or a digit-only string) as cents only when the endpoint is the
\* .js endpoint; on the .json endpoint an integer price is whole currency
\* units and is multiplied by 100.
C25_IntegerPriceByEndpoint ==
  (/\ probe.fn = "parseShopifyPriceCents" /\ probe.applied
   /\ probe.price.kind \in {"number", "string"}
   /\ probe.price.frac = 0 /\ ~probe.price.point
   /\ probe.price.whole > 0) =>
    probe.out = IF probe.endpointUrl = ShopifyEndpoint(<<".", "j", "s">>)
                THEN probe.price.whole
                ELSE probe.price.whole * 100

\* C26: the Best Buy adapter maps availability in this order:
\* onlineAvailability containing InStock gives IN_STOCK; else
\* onlineAvailability containing OutOfStock, SoldOut or Backorder gives
\* OUT_OF_STOCK; only when neither matches, isAvailableOnline decides, and
\* then inStoreAvailability; otherwise UNKNOWN.
C26_BestBuyPrecedence ==
  (probe.fn = "extractFromBestBuyPayload" /\ probe.applied) =>
    LET Has(s, part) == \E i \in DOMAIN s : s[i] = part
        online == probe.onlineAvailability
    IN  probe.stockState =
          IF Has(online, "InStock") THEN "IN_STOCK"
          ELSE IF Has(online, "OutOfStock") \/ Has(online, "SoldOut")
                  \/ Has(online, "Backorder")
          THEN "OUT_OF_STOCK"
          ELSE IF probe.isAvailableOnline = "true" THEN "IN_STOCK"
          ELSE IF probe.isAvailableOnline = "false" THEN "OUT_OF_STOCK"
          ELSE IF Has(probe.inStoreAvailability, "Available")
                  \/ Has(probe.inStoreAvailability, "available")
          THEN "IN_STOCK"
          ELSE "UNKNOWN"

\* C28: every ExtractResult, whichever path produced it (static or rendered
\* page, Shopify, Best Buy, AI), has inStock equal to the projection of its
\* stockState: true for IN_STOCK and PARTIAL, false for OUT_OF_STOCK, null
\* for UNKNOWN; an AI answer whose inStock contradicts its stockState is
\* reconciled to the stockState.
C28_InStockIsProjection ==
  probe.applied =>
    LET result == IF probe.fn = "detectStockStatus" THEN probe.out
                  ELSE [stockState |-> probe.stockState, inStock |-> probe.inStock]
    IN  /\ result.stockState \in {"IN_STOCK", "PARTIAL"} => result.inStock = "true"
        /\ result.stockState = "OUT_OF_STOCK" => result.inStock = "false"
        /\ result.stockState = "UNKNOWN" => result.inStock = "null"
        /\ result.stockState \in {"IN_STOCK", "PARTIAL", "OUT_OF_STOCK", "UNKNOWN"}
        /\ (probe.fn = "extractWithAi" /\ probe.answer.stockState # "UNKNOWN")
             => result.stockState = probe.answer.stockState

\* an AI answer "OUT_OF_STOCK, inStock true" came out with inStock false
C28_Witness ==
  /\ probe.fn = "extractWithAi" /\ probe.applied
  /\ probe.answer.stockState = "OUT_OF_STOCK" /\ probe.answer.inStock = "true"
  /\ probe.stockState = "OUT_OF_STOCK" /\ probe.inStock = "false"

\* the runDailyChecks call has ended and the limiter has nothing left
DailyQuiet ==
  /\ daily.pc \in {"returned", "raised"}
  /\ daily.queue = <<>> /\ daily.slots = {}

\* C29: runDailyChecks invokes runCheckForItem exactly once for every item
\* it loaded (up to 200 active items, oldest first), without retry and
\* whatever the outcome of the other items' checks, also when an item is
\* deactivated by deleteItem after the sweep loaded it.
C29_EveryLoadedItemCheckedOnce ==
  /\ Len(daily.items) <= 200
  /\ \A i, j \in DOMAIN daily.started :
        i # j => daily.started[i] # daily.started[j]
  /\ \A i \in DOMAIN daily.started :
        \E k \in DOMAIN daily.items : daily.items[k] = daily.started[i]
  /\ DailyQuiet =>
        \A k \in DOMAIN daily.items :
           \E i \in DOMAIN daily.started : daily.started[i] = daily.items[k]

\* The invocation in slot r ended in the catch block and row i, claimed
\* for its snapshot, was never given a sentAt.
FailedSend(r, i) ==
  /\ run[r].snapshotId # 0
  /\ notifications[i].snapshotId = run[r].snapshotId
  /\ notifications[i].sentAt = NULL
  /\ \/ run[r].pc = "catch"
     \/ run[r].pc \in {"returned", "raised"} /\ run[r].branch = "catch"

Dispatched(snapshotId, eventType) ==
  \/ \E i \in DOMAIN notifications :
        /\ notifications[i].snapshotId = snapshotId
        /\ notifications[i].eventType = eventType
  \/ \E p \in DOMAIN posts : posts[p][2] = snapshotId /\ posts[p][3] = eventType

\* the step in which the webhook POST raises
PostRaises(r) == run[r].pc = "post" /\ run'[r].pc = "catch"

AfterFailedSend ==
  \A r \in Slots : \A i \in DOMAIN notifications :
     FailedSend(r, i) =>
       LET s == run[r].snapshotId IN
       /\ s \in DOMAIN snapshots
       /\ run[r].pc = "returned" =>
            /\ run[r].status = "FAILED"
            /\ RowOf(r).status = "FAILED"
            /\ RowOf(r).errorCode = CHECK_RUN_FAILED
       /\ notifications[i].eventType = "PRICE_CHANGED" =>
            ~Dispatched(s, "BACK_IN_STOCK")
       /\ \A q \in Slots :
            LET t == run[q].snapshotId IN
            ( /\ run[q].latest = s
              /\ t # 0
              /\ snapshots[t].priceCents = snapshots[s].priceCents
              /\ snapshots[t].inStock = snapshots[s].inStock )
            => \A e \in {"PRICE_CHANGED", "BACK_IN_STOCK"} : ~Dispatched(t, e)

PostRaisesKeepsRows ==
  /\ \A r \in Slots :
       PostRaises(r) =>
         /\ notifications' = notifications
         /\ snapshots' = snapshots
         /\ \E i \in DOMAIN notifications :
              /\ NotificationKey(notifications[i])
                   = <<run[r].itemId, run[r].snapshotId, run[r].event>>
              /\ notifications[i].sentAt = NULL
  /\ \A i \in DOMAIN notifications :
       /\ i \in DOMAIN notifications'
       /\ NotificationKey(notifications'[i]) = NotificationKey(notifications[i])
       /\ (notifications[i].sentAt = NULL /\ notifications'[i].sentAt # NULL) =>
            \E r \in Slots :
               /\ run[r].pc \in {"mark", "record"}
               /\ NotificationKey(notifications[i])
                    = <<run[r].itemId, run[r].snapshotId, run[r].event>>
  /\ \A s \in DOMAIN snapshots : s \in DOMAIN snapshots' /\ snapshots'[s] = snapshots[s]

\* C30: when the webhook POST raises after the Notification row was
\* claimed, the step leaves the row with sentAt unset and the snapshot in
\* place, and no later step of another invocation sets that sentAt; the
\* CheckRun of the invocation is finalized FAILED / CHECK_RUN_FAILED, the
\* BACK_IN_STOCK event of the same snapshot is neither claimed nor posted
\* after PRICE_CHANGED failed, and an invocation that reads that snapshot
\* as the latest one and extracts the same price and stock dispatches
\* nothing.
C30_FailedWebhookIsNotRetried ==
  /\ []AfterFailedSend
  /\ [][PostRaisesKeepsRows]_vars

\* The POST of PRICE_CHANGED raised undelivered while BACK_IN_STOCK was
\* due as well, the invocation returned FAILED, and a later invocation
\* that found the same price and stock returned SUCCESS.
C30_Witness ==
  \E r \in Slots, q \in Slots : \E i \in DOMAIN notifications :
     /\ FailedSend(r, i)
     /\ webhookUrl
     /\ run[r].pc = "returned"
     /\ notifications[i].eventType = "PRICE_CHANGED"
     /\ \A p \in DOMAIN posts : posts[p][2] # run[r].snapshotId
     /\ run[r].snapshotId > 1
     /\ snapshots[run[r].snapshotId - 1].inStock = "false"
     /\ snapshots[run[r].snapshotId].inStock = "true"
     /\ run[q].pc = "returned"
     /\ run[q].status = "SUCCESS"
     /\ run[q].latest = run[r].snapshotId
     /\ run[q].snapshotId # 0
     /\ snapshots[run[q].snapshotId].priceCents = snapshots[run[r].snapshotId].priceCents
     /\ snapshots[run[q].snapshotId].inStock = snapshots[run[r].snapshotId].inStock
====
